---- MODULE Spec2Model ----
(***************************************************************************)
(* A model of souk's transactional mutation engine: the AtomicGuard        *)
(* backup/restore guard (ops/atomic.rs) and the Add / Remove / Update      *)
(* pipelines (ops/add.rs, ops/remove.rs, ops/update.rs) that change the    *)
(* registry file marketplace.json and the plugin directories.             *)
(*                                                                         *)
(* Paths are sequences of components; an absolute path starts with "/".    *)
(* The filesystem is the pair (files, dirs): files maps the path of every  *)
(* existing regular file to its content, dirs is the set of existing       *)
(* directories.  A file content carries, besides the parsed JSON value, a  *)
(* format tag fmt: "raw" for bytes written by hand, "pretty" for the       *)
(* output of serde_json::to_string_pretty, so that two files holding the   *)
(* same JSON value need not be byte-identical.                             *)
(***************************************************************************)
EXTENDS Integers, Sequences, FiniteSets, TLC

VARIABLES
    files,      \* path -> content, for every regular file on disk
    dirs,       \* set of paths of the directories on disk
    clock,      \* the system clock, in seconds since the epoch
    held,       \* guard harness: the live AtomicGuard values
    last,       \* guard harness: the last guard operation and what it saw
    config,     \* the MarketplaceConfig snapshot handed to the pipelines
    pc,         \* position of the pipeline invocation in progress
    args,       \* arguments of the invocation in progress
    plan,       \* AddPlan.actions / delete_targets / plugin_paths
    idx,        \* index of the loop the invocation is in
    mp_guard,   \* the guard over marketplace.json (a sequence of 0 or 1 guard)
    plugin_guards, \* update_plugins: the Vec of guards over plugin.json files
    result,     \* what the invocation returned
    pre,        \* history: files and dirs when the invocation was entered
    log,        \* history: what the invocation has done to the disk so far
    edits,      \* number of edits the user made to the disk before the invocation
    fault,      \* the I/O operation of the invocation that is going to fail, if any
    hist        \* history: the invocations that returned, oldest first

(***************************************************************************)
(* Bounds of the model.                                                    *)
(***************************************************************************)
MaxClock == 1
MaxEdits == 1
MaxSuffix == 4
MaxHeld == 2

(***************************************************************************)
(* Paths.                                                                  *)
(***************************************************************************)
ProjectRoot == <<"/", "proj">>
MarketplacePath == ProjectRoot \o <<".claude-plugin", "marketplace.json">>
PluginRoot == ProjectRoot \o <<"plugins">>
ExtRoot == <<"/", "ext">>

Last(s) == s[Len(s)]
Front(s) == SubSeq(s, 1, Len(s) - 1)
IsPrefix(p, q) == Len(p) <= Len(q) /\ SubSeq(q, 1, Len(p)) = p

PluginJsonPath(dir) == dir \o <<".claude-plugin", "plugin.json">>

(***************************************************************************)
(* File contents.                                                          *)
(***************************************************************************)
Absent == [kind |-> "absent"]
Garbage == [kind |-> "garbage"]

Ver(ma, mi, pa) == [ok |-> TRUE, major |-> ma, minor |-> mi, patch |-> pa, pre |-> FALSE]
BadVer == [ok |-> FALSE, major |-> 0, minor |-> 0, patch |-> 0, pre |-> FALSE]

Entry(n, s, t) == [name |-> n, source |-> s, tags |-> t]
MpDoc(f, v, ps) == [kind |-> "mp", fmt |-> f, version |-> v, plugins |-> ps]

NoStr == "<none>"
PjDoc(f, n, hv, v, d, kw) ==
    [kind |-> "pj", fmt |-> f, name |-> n, hasVersion |-> hv, version |-> v,
     description |-> d, keywords |-> kw]

(***************************************************************************)
(* Filesystem primitives (std::fs).                                        *)
(***************************************************************************)
Exists(fs, p) == p \in DOMAIN fs
ReadFile(fs, p) == IF p \in DOMAIN fs THEN fs[p] ELSE Absent
WriteFile(fs, p, c) == [q \in (DOMAIN fs) \cup {p} |-> IF q = p THEN c ELSE fs[q]]
RemoveFile(fs, p) == [q \in (DOMAIN fs) \ {p} |-> fs[q]]
\* fs::copy(from, to): the bytes of from replace those of to
CopyFile(fs, from, to) == WriteFile(fs, to, fs[from])

(***************************************************************************)
(* AtomicGuard (ops/atomic.rs).  A guard is the struct's three fields;     *)
(* backup_path = <<>> stands for None.                                     *)
(***************************************************************************)
NoPath == <<>>

\* original_path.with_extension("{ext}.bak.{epoch}") for a file name that
\* has an extension (marketplace.json, plugin.json)
BackupPath(p, epoch) == Front(p) \o <<Last(p) \o ".bak." \o ToString(epoch)>>

\* a guard that names a backup even when the file does not exist
GuardNew_AlwaysBackup(fs, p, epoch) ==
    [original_path |-> p, backup_path |-> BackupPath(p, epoch), committed |-> FALSE]

\* AtomicGuard::new, the guard it returns
GuardNew(fs, p, epoch) ==
    [original_path |-> p,
     backup_path |-> IF Exists(fs, p) THEN BackupPath(p, epoch) ELSE NoPath,
     committed |-> FALSE]

\* AtomicGuard::new, its effect on the files
GuardNewFiles(fs, p, epoch) ==
    IF Exists(fs, p) THEN CopyFile(fs, p, BackupPath(p, epoch)) ELSE fs

\* AtomicGuard::commit: the guard is marked committed, the backup removed
GuardCommit(g) == [g EXCEPT !.committed = TRUE]

\* a commit that leaves the backup on disk
GuardCommitFiles_KeepBackup(fs, g) == fs

GuardCommitFiles(fs, g) ==
    IF g.backup_path # NoPath /\ Exists(fs, g.backup_path)
    THEN RemoveFile(fs, g.backup_path)
    ELSE fs

\* a drop that removes the backup without restoring from it
GuardDropFiles_NoRestore(fs, g) ==
    IF g.committed THEN fs
    ELSE IF g.backup_path # NoPath /\ Exists(fs, g.backup_path)
         THEN RemoveFile(fs, g.backup_path)
         ELSE fs

\* Drop for AtomicGuard: restore from the backup unless committed
GuardDropFiles(fs, g) ==
    IF g.committed THEN fs
    ELSE IF g.backup_path # NoPath /\ Exists(fs, g.backup_path)
         THEN RemoveFile(CopyFile(fs, g.backup_path, g.original_path), g.backup_path)
         ELSE fs

(***************************************************************************)
(* Path resolution (resolution/plugin.rs) and canonicalization.            *)
(***************************************************************************)
\* the symbolic links of the disk: plugins/ln points at /ext/c
Links == [p \in {PluginRoot \o <<"ln">>} |-> ExtRoot \o <<"c">>]

RECURSIVE CanonFrom(_, _)
\* Path::canonicalize: "." is dropped, ".." removes the component before
\* it, and a symbolic link is replaced by what it points at
CanonFrom(done, rest) ==
    IF rest = <<>> THEN done
    ELSE IF Head(rest) = "." THEN CanonFrom(done, Tail(rest))
    ELSE IF Head(rest) = ".."
         THEN CanonFrom(IF Len(done) > 1 THEN Front(done) ELSE done, Tail(rest))
    ELSE LET next == Append(done, Head(rest)) IN
         CanonFrom(IF next \in DOMAIN Links THEN Links[next] ELSE next, Tail(rest))

Canonicalize(p) == CanonFrom(<<>>, p)

\* Path::is_dir
IsDir(ds, p) == p # <<>> /\ Canonicalize(p) \in ds

\* resolve_source: a source string to a path
resolve_source(source) ==
    IF source # <<>> /\ Head(source) = "/" THEN source
    ELSE IF Len(source) > 1 /\ Head(source) \in {".", ".."} THEN ProjectRoot \o source
    ELSE PluginRoot \o source

\* plugin_path_to_source: (source, is_internal) of a plugin directory
plugin_path_to_source(path) ==
    LET canon_path == Canonicalize(path) IN
    IF IsPrefix(PluginRoot, canon_path)
    THEN [source |-> IF Len(canon_path) > Len(PluginRoot)
                     THEN <<canon_path[Len(PluginRoot) + 1]>> ELSE <<>>,
          is_internal |-> TRUE]
    ELSE [source |-> canon_path, is_internal |-> FALSE]

FindEntry(plugins, name) ==
    LET hits == {i \in 1..Len(plugins) : plugins[i].name = name} IN
    IF hits = {} THEN 0 ELSE CHOOSE i \in hits : \A j \in hits : i <= j

HasName(plugins, name) == \E i \in 1..Len(plugins) : plugins[i].name = name

\* The working directory of the process holds no plugin directory: a
\* relative input is a directory only through the plugin root.
DirectIsDir(ds, input) == input # <<>> /\ Head(input) = "/" /\ IsDir(ds, input)

\* resolve_plugin / resolve_plugin_input: <<>> when the input is not found
resolve_plugin_input(ds, cfg, input) ==
    IF DirectIsDir(ds, input) THEN Canonicalize(input)
    ELSE IF Head(input) # "/" /\ IsDir(ds, PluginRoot \o input)
         THEN Canonicalize(PluginRoot \o input)
    ELSE LET i == IF Len(input) = 1
                  THEN FindEntry(cfg.marketplace.plugins, input[1]) ELSE 0 IN
         IF i # 0 /\ IsDir(ds, resolve_source(cfg.marketplace.plugins[i].source))
         THEN Canonicalize(resolve_source(cfg.marketplace.plugins[i].source))
         ELSE NoPath

(***************************************************************************)
(* Versions (version.rs).                                                  *)
(***************************************************************************)
\* The components of a version are u64; the model keeps VersionBits bits
\* of them.
VersionBits == 4
MaxComponent == 2^VersionBits - 1
WrappingAdd(n) == (n + 1) % (2^VersionBits)

\* a patch bump that leaves the version as it was
bump_patch_Keep(v) == v

\* bump_patch on a version that parses; pre-release and build are dropped;
\* the sum is the one of a build without overflow checks
bump_patch(v) == [ok |-> TRUE, major |-> v.major, minor |-> v.minor,
                  patch |-> WrappingAdd(v.patch), pre |-> FALSE]
bump_minor(v) == [ok |-> TRUE, major |-> v.major, minor |-> WrappingAdd(v.minor),
                  patch |-> 0, pre |-> FALSE]
bump_major(v) == [ok |-> TRUE, major |-> WrappingAdd(v.major), minor |-> 0,
                  patch |-> 0, pre |-> FALSE]

\* the component that a bump increments is the largest u64
Overflows(bump, v) ==
    CASE bump = "major" -> v.major = MaxComponent
      [] bump = "minor" -> v.minor = MaxComponent
      [] OTHER -> v.patch = MaxComponent

RECURSIVE UniqueFrom(_, _, _)
UniqueFrom(base, existing, counter) ==
    LET candidate == base \o "-" \o ToString(counter) IN
    IF candidate \notin existing THEN candidate
    ELSE UniqueFrom(base, existing, counter + 1)

\* a search for a free name that starts at suffix 1
generate_unique_name_From1(base, existing) ==
    IF base \notin existing THEN base ELSE UniqueFrom(base, existing, 1)

\* generate_unique_name
generate_unique_name(base, existing) ==
    IF base \notin existing THEN base ELSE UniqueFrom(base, existing, 2)

(***************************************************************************)
(* Validation (validation/plugin.rs, validation/marketplace.rs).           *)
(* A diagnostic is a record [sev, msg]; a result is a set of them.         *)
(***************************************************************************)
\* ValidationDiagnostic: severity, message, the value formatted into the
\* message, and the path it is attached to (with_path)
DiagFor(s, m, arg, on) == [sev |-> s, msg |-> m, arg |-> arg, on |-> on]
Diag(s, m) == DiagFor(s, m, <<>>, <<>>)

\* a result that fails as soon as it holds a diagnostic
has_errors_Any(r) == r # {}

\* ValidationResult::has_errors
has_errors(r) == \E d \in r : d.sev = "error"

ExtendsPath(path) == path \o <<".claude-plugin", "extends-plugin.json">>
ExtendsDoc(valid) == [kind |-> "ext", fmt |-> "raw", valid |-> valid]

\* validate_extends_plugin: nothing without the file; valid stands for an
\* object with allowed keys and well-formed sections
validate_extends_plugin(fs, path) ==
    IF ~Exists(fs, ExtendsPath(path)) THEN {}
    ELSE IF fs[ExtendsPath(path)].kind # "ext"
    THEN {DiagFor("error", "Invalid JSON in extends-plugin.json", <<>>, ExtendsPath(path))}
    ELSE IF ~fs[ExtendsPath(path)].valid
    THEN {DiagFor("error", "Invalid key in extends-plugin.json", <<>>, ExtendsPath(path))}
    ELSE {}

MissingField(field, path) ==
    DiagFor("error", "Missing or null required field: " \o field, <<>>, PluginJsonPath(path))

\* a validation that stops at the first missing field
FieldDiagnostics_FailFast(m, path) ==
    IF m.name = NoStr THEN {MissingField("name", path)}
    ELSE IF ~m.hasVersion THEN {MissingField("version", path)}
    ELSE IF ~m.description THEN {MissingField("description", path)}
    ELSE IF ~m.version.ok
    THEN {DiagFor("error", "Invalid semver version: {v}", <<>>, PluginJsonPath(path))}
    ELSE {}

\* validate_plugin: the diagnostics on the fields of a manifest that parsed
FieldDiagnostics(m, path) ==
    (IF m.name = NoStr THEN {MissingField("name", path)} ELSE {})
    \cup (IF ~m.hasVersion THEN {MissingField("version", path)} ELSE {})
    \cup (IF ~m.description THEN {MissingField("description", path)} ELSE {})
    \cup (IF m.hasVersion /\ ~m.version.ok
          THEN {DiagFor("error", "Invalid semver version: {v}", <<>>, PluginJsonPath(path))}
          ELSE {})

\* validate_plugin
validate_plugin(fs, ds, path) ==
    IF ~IsDir(ds, path)
    THEN {DiagFor("error", "Plugin path does not exist or is not a directory", <<>>, path)}
    ELSE IF ~IsDir(ds, path \o <<".claude-plugin">>)
         THEN {DiagFor("error", "Missing .claude-plugin directory", <<>>, path)}
    ELSE IF ~Exists(fs, PluginJsonPath(path))
         THEN {DiagFor("error", "Missing plugin.json", <<>>, path \o <<".claude-plugin">>)}
    ELSE LET m == fs[PluginJsonPath(path)] IN
         IF m.kind # "pj"
         THEN {DiagFor("error", "Invalid JSON in plugin.json", <<>>, PluginJsonPath(path))}
         ELSE FieldDiagnostics(m, path) \cup validate_extends_plugin(fs, path)

\* names of the directories directly under the plugin root
FsPlugins(ds) == {d[Len(PluginRoot) + 1] : d \in {e \in ds : Len(e) = Len(PluginRoot) + 1
                                                          /\ IsPrefix(PluginRoot, e)}}

\* Path::file_name of a source, or the source itself when it has none
SourceBasename(source) ==
    IF source = <<>> \/ Last(source) \in {"..", "/"} THEN source ELSE <<Last(source)>>

MpSources(plugins) == {SourceBasename(plugins[i].source) : i \in 1..Len(plugins)}

\* find_orphaned_dirs
find_orphaned_dirs(ds, mp) ==
    {PluginRoot \o <<n>> : n \in {m \in FsPlugins(ds) : <<m>> \notin MpSources(mp.plugins)}}

OrphanMsg == "Plugin in filesystem but not in marketplace: {name}"
MissingMsg ==
    "Plugin in marketplace but not in filesystem: {mp_source}. Run souk remove {mp_source} to clean up the stale entry."

\* a completeness pass that reports an orphaned directory as an error
check_completeness_Strict(ds, mp) ==
    {DiagFor("error", OrphanMsg, <<Last(o)>>, o) : o \in find_orphaned_dirs(ds, mp)}
    \cup {DiagFor("error", MissingMsg, t, MarketplacePath) :
            t \in {u \in MpSources(mp.plugins) : ~(Len(u) = 1 /\ u[1] \in FsPlugins(ds))}}

\* check_completeness
check_completeness(ds, mp) ==
    {DiagFor("warning", OrphanMsg, <<Last(o)>>, o) : o \in find_orphaned_dirs(ds, mp)}
    \cup {DiagFor("error", MissingMsg, t, MarketplacePath) :
            t \in {u \in MpSources(mp.plugins) : ~(Len(u) = 1 /\ u[1] \in FsPlugins(ds))}}

\* validate_marketplace(config, skip_plugins = true) on a freshly loaded config
validate_marketplace(ds, mp) ==
    (IF ~mp.version.ok THEN {Diag("error", "Invalid marketplace version")} ELSE {})
    \cup (IF ~IsDir(ds, PluginRoot)
          THEN {Diag("error", "Plugin root directory not found")} ELSE {})
    \cup {Diag("error", "Duplicate plugin name") :
            i \in {j \in 1..Len(mp.plugins) :
                     \E k \in 1..(j - 1) : mp.plugins[k].name = mp.plugins[j].name}}
    \cup {Diag("error", "empty name") :
            i \in {j \in 1..Len(mp.plugins) : mp.plugins[j].name = ""}}
    \cup {Diag("error", "empty source") :
            i \in {j \in 1..Len(mp.plugins) : mp.plugins[j].source = <<>>}}
    \cup (IF IsDir(ds, PluginRoot) THEN check_completeness(ds, mp) ELSE {})

\* load_marketplace_config: the file must parse and the plugin root exist
LoadOk(fs, ds) ==
    /\ Exists(fs, MarketplacePath)
    /\ fs[MarketplacePath].kind = "mp"
    /\ IsDir(ds, PluginRoot)

load_marketplace_config(fs, ds) ==
    IF LoadOk(fs, ds) THEN [loaded |-> TRUE, marketplace |-> fs[MarketplacePath]]
    ELSE [loaded |-> FALSE, marketplace |-> Absent]

(***************************************************************************)
(* Directory trees (std::fs::remove_dir_all, add.rs copy_dir_recursive).   *)
(***************************************************************************)
Rebase(p, src, dst) == dst \o SubSeq(p, Len(src) + 1, Len(p))

\* copy_dir_recursive: the directories created
CopyDirDirs(ds, src, dst) ==
    ds \cup {SubSeq(dst, 1, k) : k \in 2..Len(dst)}
       \cup {Rebase(d, src, dst) : d \in {e \in ds : IsPrefix(src, e)}}

\* copy_dir_recursive: the files copied
CopyDirFiles(fs, src, dst) ==
    LET moved == {f \in DOMAIN fs : IsPrefix(src, f)} IN
    [q \in (DOMAIN fs) \cup {Rebase(f, src, dst) : f \in moved} |->
        IF \E f \in moved : Rebase(f, src, dst) = q
        THEN fs[CHOOSE f \in moved : Rebase(f, src, dst) = q]
        ELSE fs[q]]

RemoveDirAllDirs(ds, p) == {d \in ds : ~IsPrefix(p, d)}
RemoveDirAllFiles(fs, p) == [q \in {f \in DOMAIN fs : ~IsPrefix(p, f)} |-> fs[q]]

(***************************************************************************)
(* Results and errors (error.rs SoukError).                                *)
(***************************************************************************)
NoResult == [status |-> "none", kind |-> "", detail |-> "", at |-> "", names |-> <<>>,
             warnings |-> <<>>, errors |-> <<>>]
Ok(names, warnings) == [status |-> "ok", kind |-> "", detail |-> "", at |-> "",
                        names |-> names, warnings |-> warnings, errors |-> <<>>]
Err(kind, detail, at) == [status |-> "err", kind |-> kind, detail |-> detail, at |-> at,
                          names |-> <<>>, warnings |-> <<>>, errors |-> <<>>]

\* `v.patch + 1` on the largest u64 in a build with overflow checks: the
\* process unwinds
Panic == Err("Panic", "attempt to add with overflow", "bump")

(***************************************************************************)
(* Add (ops/add.rs).                                                       *)
(***************************************************************************)
AddAction(path, name, source, ext, conflict, new_name) ==
    [plugin_path |-> path, plugin_name |-> name, source |-> source,
     is_external |-> ext, conflict |-> conflict, new_name |-> new_name]

ExistingNames(cfg) ==
    {cfg.marketplace.plugins[i].name : i \in 1..Len(cfg.marketplace.plugins)}

\* the conflict resolution of plan_add for a name that is registered
ResolveConflict(strategy, name, existing) ==
    CASE strategy = "skip" -> [conflict |-> "Skip", new_name |-> ""]
      [] strategy = "replace" -> [conflict |-> "Replace", new_name |-> ""]
      [] OTHER -> [conflict |-> "Rename",
                   new_name |-> generate_unique_name(name, existing)]

\* a message of plan_add and the input it names; a result carries in its
\* field errors the messages its error text is made of
PlanError(msg, input) == [msg |-> msg, input |-> input]

\* SoukError::Other(errors.join("; "))
Joined(errors) == [Err("Other", "plan errors", "plan") EXCEPT !.errors = errors]

RECURSIVE PlanLoop(_, _, _, _, _, _, _, _, _)
\* the loop of plan_add over the inputs, from input i on
PlanLoop(fs, ds, cfg, inputs, strategy, no_copy, i, actions, errors) ==
    IF i > Len(inputs)
    THEN IF errors # <<>>
         THEN [ok |-> FALSE, actions |-> <<>>, err |-> Joined(errors), errors |-> errors]
         ELSE [ok |-> TRUE, actions |-> actions, err |-> NoResult, errors |-> errors]
    ELSE
    LET plugin_path == resolve_plugin_input(ds, cfg, inputs[i])
        manifest == ReadFile(fs, PluginJsonPath(plugin_path))
        plugin_name == manifest.name
        src == plugin_path_to_source(plugin_path)
        is_external == ~src.is_internal
        final_source == IF is_external /\ ~no_copy THEN <<plugin_name>> ELSE src.source
        existing == ExistingNames(cfg)
        c == IF plugin_name \in existing
             THEN ResolveConflict(strategy, plugin_name, existing)
             ELSE [conflict |-> "None", new_name |-> ""]
        fail(e) == [ok |-> FALSE, actions |-> <<>>, errors |-> errors,
                    err |-> IF e.kind = "Json" THEN e
                            ELSE [e EXCEPT !.errors = <<PlanError(e.detail, inputs[i])>>]]
    IN
    IF plugin_path = NoPath
    THEN PlanLoop(fs, ds, cfg, inputs, strategy, no_copy, i + 1, actions,
                  Append(errors, PlanError("Plugin not found", inputs[i])))
    ELSE IF manifest.kind = "absent"
    THEN fail(Err("Other", "Cannot read plugin.json", "plan"))
    ELSE IF manifest.kind # "pj"
    THEN fail(Err("Json", "plugin.json", "plan"))
    ELSE IF plugin_name = NoStr
    THEN fail(Err("Other", "Plugin has no name in plugin.json", "plan"))
    ELSE IF has_errors(validate_plugin(fs, ds, plugin_path))
    THEN PlanLoop(fs, ds, cfg, inputs, strategy, no_copy, i + 1, actions,
                  Append(errors, PlanError("Plugin validation failed", inputs[i])))
    ELSE IF plugin_name \in existing /\ strategy = "abort"
    THEN fail(Err("PluginAlreadyExists", plugin_name, "plan"))
    ELSE PlanLoop(fs, ds, cfg, inputs, strategy, no_copy, i + 1,
                  Append(actions, AddAction(plugin_path, plugin_name, final_source,
                                            is_external, c.conflict, c.new_name)),
                  errors)

\* a planner for which abort skips the conflicting input
plan_add_AbortSkips(fs, ds, cfg, inputs, strategy, no_copy) ==
    PlanLoop(fs, ds, cfg, inputs, IF strategy = "abort" THEN "skip" ELSE strategy,
             no_copy, 1, <<>>, <<>>)

\* plan_add
plan_add(fs, ds, cfg, inputs, strategy, no_copy) ==
    PlanLoop(fs, ds, cfg, inputs, strategy, no_copy, 1, <<>>, <<>>)

\* an execution that keeps the skipped actions
EffectiveActions_All(actions) == actions

\* execute_add: the actions that are not Skip
EffectiveActions(actions) == SelectSeq(actions, LAMBDA a : a.conflict # "Skip")

\* a report that ignores the generated name
FinalName_Plain(a) == a.plugin_name

\* execute_add: the name an action is registered under
FinalName(a) == IF a.conflict = "Rename" THEN a.new_name ELSE a.plugin_name

\* execute_add: the names reported (dry run) or added
AddedNames(actions) ==
    [i \in 1..Len(EffectiveActions(actions)) |-> FinalName(EffectiveActions(actions)[i])]

\* execute_add phase 4: does the action copy its directory into the plugin root
NeedsCopy(a) == a.is_external /\ Head(a.source) # "/"

CopyTarget(a) ==
    PluginRoot \o (IF a.conflict = "Rename" THEN <<a.new_name>> ELSE a.source)

RECURSIVE ApplyAdd(_, _, _, _)
\* execute_add phase 5: the loop that applies the effective actions to the
\* parsed document, from action i on
ApplyAdd(fs, plugins, eff, i) ==
    IF i > Len(eff) THEN [ok |-> TRUE, plugins |-> plugins, err |-> NoResult]
    ELSE
    LET a == eff[i]
        kept == IF a.conflict = "Replace"
                THEN SelectSeq(plugins, LAMBDA p : p.name # a.plugin_name)
                ELSE plugins
        final_name == FinalName(a)
        final_source == IF a.conflict = "Rename" THEN <<a.new_name>> ELSE a.source
        manifest == ReadFile(fs, PluginJsonPath(a.plugin_path))
    IN
    IF manifest.kind = "absent"
    THEN [ok |-> FALSE, plugins |-> plugins,
          err |-> Err("Other", "Cannot read plugin.json", "update")]
    ELSE IF manifest.kind # "pj"
    THEN [ok |-> FALSE, plugins |-> plugins, err |-> Err("Json", "plugin.json", "update")]
    ELSE ApplyAdd(fs, Append(kept, Entry(final_name, final_source, manifest.keywords)),
                  eff, i + 1)

(***************************************************************************)
(* The disks the pipelines start from.  Plugin a lives under the plugin    *)
(* root and is registered; b is absent, an unregistered directory under    *)
(* the plugin root, or registered; /ext/a is an external plugin that also  *)
(* calls itself a; /ext/c is absent, an unregistered external plugin, or   *)
(* registered by its absolute path.                                        *)
(***************************************************************************)
Manifest(n) == PjDoc("raw", n, TRUE, Ver(1, 0, 0), TRUE, <<"kw-" \o n>>)

PluginDirs(d) == {d, d \o <<".claude-plugin">>}

WorldDirs(b, c) ==
    {<<"/">>, ProjectRoot, ProjectRoot \o <<".claude-plugin">>, PluginRoot, ExtRoot}
    \cup PluginDirs(PluginRoot \o <<"a">>) \cup PluginDirs(ExtRoot \o <<"a">>)
    \cup (IF b # "none" THEN PluginDirs(PluginRoot \o <<"b">>) ELSE {})
    \cup (IF c # "none" THEN PluginDirs(ExtRoot \o <<"c">>) ELSE {})

WorldEntries(b, c) ==
    <<Entry("a", <<"a">>, <<"old">>)>>
    \o (IF b = "reg" THEN <<Entry("b", <<"b">>, <<"old">>)>> ELSE <<>>)
    \o (IF c = "reg" THEN <<Entry("c", ExtRoot \o <<"c">>, <<>>)>> ELSE <<>>)

WorldFiles(b, c) ==
    LET pjs == {PluginRoot \o <<"a">>, ExtRoot \o <<"a">>}
               \cup (IF b # "none" THEN {PluginRoot \o <<"b">>} ELSE {})
               \cup (IF c # "none" THEN {ExtRoot \o <<"c">>} ELSE {})
    IN [q \in {MarketplacePath} \cup {PluginJsonPath(d) : d \in pjs} |->
          IF q = MarketplacePath
          THEN MpDoc("raw", Ver(0, 1, 0), WorldEntries(b, c))
          ELSE Manifest(q[Len(q) - 2])]

NoGuard == [original_path |-> NoPath, backup_path |-> NoPath, committed |-> FALSE]
NoGuardOp == [op |-> "none", guard |-> NoGuard,
              existed |-> FALSE, acquired |-> Absent, before |-> <<>>]

Idle ==
    /\ pc = "idle"
    /\ args = [op |-> "none"]
    /\ plan = <<>>
    /\ idx = 0
    /\ mp_guard = <<>>
    /\ plugin_guards = <<>>
    /\ result = NoResult
    /\ log = <<>>

Init ==
    /\ \E b \in {"none", "orphan", "reg"}, c \in {"none", "dir", "reg"} :
          /\ files = WorldFiles(b, c)
          /\ dirs = WorldDirs(b, c)
    /\ clock = 0
    /\ held = <<>>
    /\ last = NoGuardOp
    /\ config = load_marketplace_config(files, dirs)
    /\ Idle
    /\ pre = [files |-> files, dirs |-> dirs]
    /\ edits = 0
    /\ fault = "none"
    /\ hist = <<>>

vars == <<files, dirs, clock, held, last, config, pc, args, plan, idx, mp_guard,
          plugin_guards, result, pre, log, edits, fault, hist>>

\* what no step of a pipeline changes
harnessVars == <<held, last, fault, hist>>

(***************************************************************************)
(* Entering and leaving an invocation.                                     *)
(***************************************************************************)
\* the invocation returns an error: every live guard is dropped, the Vec of
\* plugin guards first (locals are dropped in reverse order of declaration)
\* a teardown that restores the registry only
DropAll_RegistryOnly(fs, guards) ==
    IF guards = <<>> THEN fs ELSE GuardDropFiles(fs, guards[Len(guards)])

RECURSIVE DropAll(_, _)
DropAll(fs, guards) ==
    IF guards = <<>> THEN fs ELSE DropAll(GuardDropFiles(fs, Head(guards)), Tail(guards))

\* an error return that forgets the guards without running their Drop
Fail_NoDrop(e, fs) ==
    /\ files' = fs
    /\ mp_guard' = <<>>
    /\ plugin_guards' = <<>>
    /\ result' = e
    /\ pc' = "done"

Fail(e, fs) ==
    /\ files' = DropAll(fs, plugin_guards \o mp_guard)
    /\ mp_guard' = <<>>
    /\ plugin_guards' = <<>>
    /\ result' = e
    /\ pc' = "done"

Enter(a) ==
    /\ pc = "idle"
    /\ config.loaded
    /\ args' = a
    /\ pre' = [files |-> files, dirs |-> dirs]
    /\ UNCHANGED <<clock, config, edits, harnessVars>>

(***************************************************************************)
(* Add: plan_add, then execute_add step by step.                           *)
(***************************************************************************)
AddInputs == {<<"a">>, <<"b">>, ExtRoot \o <<"a">>, ExtRoot \o <<"c">>, <<"zz">>}
InputLists(S) == {<<i>> : i \in S} \cup {<<i, j>> : i \in S, j \in S}
Strategies == {"abort", "skip", "replace", "rename"}

PlanAdd(inputs, strategy, no_copy) ==
    /\ Enter([op |-> "add", names |-> inputs, strategy |-> strategy,
              no_copy |-> no_copy, dry_run |-> FALSE])
    /\ LET p == plan_add(files, dirs, config, inputs, strategy, no_copy) IN
       IF p.ok
       THEN /\ plan' = p.actions
            /\ pc' = "add_planned"
            /\ UNCHANGED <<result>>
       ELSE /\ plan' = <<>>
            /\ pc' = "done"
            /\ result' = p.err
    /\ UNCHANGED <<files, dirs, idx, mp_guard, plugin_guards, log>>

\* execute_add up to the dry-run gate
ExecuteAdd(dry_run) ==
    /\ pc = "add_planned"
    /\ args' = [args EXCEPT !.dry_run = dry_run]
    /\ IF EffectiveActions(plan) = <<>>
       THEN pc' = "done" /\ result' = Ok(<<>>, <<>>) /\ idx' = idx
       ELSE IF dry_run
       THEN pc' = "done" /\ result' = Ok(AddedNames(plan), <<>>) /\ idx' = idx
       ELSE pc' = "add_copy" /\ result' = result /\ idx' = 1
    /\ UNCHANGED <<files, dirs, clock, config, plan, mp_guard, plugin_guards, pre, log,
                   edits, harnessVars>>

\* a copy phase that never removes the directory it copies to
Cleared_Never(ds, a) == FALSE

\* execute_add phase 4: is the target directory removed before the copy
Cleared(ds, a) == a.conflict = "Replace" /\ IsDir(ds, CopyTarget(a))

\* a copy phase that takes every target directory as free
TargetTaken_Never(ds, a) == FALSE

\* execute_add phase 4: the target directory exists and is not replaced
TargetTaken(ds, a) == IsDir(ds, CopyTarget(a)) /\ a.conflict # "Replace"

\* execute_add phase 4, one effective action per step
AddCopy ==
    /\ pc = "add_copy"
    /\ LET eff == EffectiveActions(plan)
           a == eff[idx]
           target_dir == CopyTarget(a)
           cleared == Cleared(dirs, a)
           ds1 == IF cleared THEN RemoveDirAllDirs(dirs, target_dir) ELSE dirs
           fs1 == IF cleared THEN RemoveDirAllFiles(files, target_dir) ELSE files
       IN
       IF ~NeedsCopy(a)
       THEN /\ UNCHANGED <<files, dirs, log, result>>
            /\ idx' = idx + 1
            /\ pc' = IF idx = Len(eff) THEN "add_guard" ELSE "add_copy"
       ELSE IF TargetTaken(dirs, a)
       THEN /\ UNCHANGED <<files, dirs, log, idx>>
            /\ result' = Err("Other", "Target directory already exists", "copy")
            /\ pc' = "done"
       ELSE /\ dirs' = CopyDirDirs(ds1, a.plugin_path, target_dir)
            /\ files' = CopyDirFiles(fs1, a.plugin_path, target_dir)
            /\ log' = Append(log, "copy")
            /\ idx' = idx + 1
            /\ pc' = IF idx = Len(eff) THEN "add_guard" ELSE "add_copy"
            /\ UNCHANGED result
    /\ UNCHANGED <<clock, config, args, plan, mp_guard, plugin_guards, pre, edits,
                   harnessVars>>

\* AtomicGuard::new(&config.marketplace_path) of execute_add and remove_plugins
AcquireMpGuard(next) ==
    IF fault = "guard" /\ Exists(files, MarketplacePath)
    THEN Fail(Err("Io", "backup of marketplace.json", "guard"), files) /\ UNCHANGED log
    ELSE /\ mp_guard' = <<GuardNew(files, MarketplacePath, clock)>>
         /\ files' = GuardNewFiles(files, MarketplacePath, clock)
         /\ log' = Append(log, "guard")
         /\ pc' = next
         /\ UNCHANGED <<plugin_guards, result>>

AddGuard ==
    /\ pc = "add_guard"
    /\ AcquireMpGuard("add_update")
    /\ UNCHANGED <<dirs, clock, config, args, plan, idx, pre, edits, harnessVars>>

\* an fs::write that fails leaves the file as it was, or truncated
WriteFaults == {"write", "write_partial"}
FailedWrite(fs, p) == IF fault = "write_partial" THEN WriteFile(fs, p, Garbage) ELSE fs

\* a pipeline that mutates the snapshot it was given
ReadRegistry_Snapshot(fs, cfg) == cfg.marketplace

\* fs::read_to_string(&config.marketplace_path) and serde_json::from_str:
\* the registry the pipelines mutate is the one on disk
ReadRegistry(fs, cfg) == ReadFile(fs, MarketplacePath)

\* serde_json::to_string_pretty(&marketplace) followed by fs::write
WriteMarketplace(fs, version, plugins) ==
    WriteFile(fs, MarketplacePath, MpDoc("pretty", version, plugins))

\* execute_add phases 5 and 6: re-read, apply, bump, write back
AddUpdate ==
    /\ pc = "add_update"
    /\ LET content == ReadRegistry(files, config)
           applied == ApplyAdd(files, content.plugins, EffectiveActions(plan), 1)
       IN
       IF fault = "read" \/ content.kind = "absent"
       THEN Fail(Err("Io", "read marketplace.json", "update"), files)
            /\ UNCHANGED log
       ELSE IF content.kind # "mp" THEN Fail(Err("Json", "marketplace.json", "update"), files)
            /\ UNCHANGED log
       ELSE IF ~applied.ok THEN Fail(applied.err, files) /\ UNCHANGED log
       ELSE IF ~content.version.ok THEN Fail(Err("Semver", "version", "update"), files)
            /\ UNCHANGED log
       ELSE
         \/ /\ Overflows("patch", content.version)
            /\ Fail(Panic, files)
            /\ UNCHANGED log
         \/ IF fault \in WriteFaults
            THEN Fail(Err("Io", "write marketplace.json", "update"),
                      FailedWrite(files, MarketplacePath)) /\ UNCHANGED log
            ELSE /\ files' = WriteMarketplace(files, bump_patch(content.version), applied.plugins)
                 /\ log' = Append(log, "write")
                 /\ pc' = "add_validate"
                 /\ UNCHANGED <<mp_guard, plugin_guards, result>>
    /\ UNCHANGED <<dirs, clock, config, args, plan, idx, pre, edits, harnessVars>>

\* a last phase that commits the guard whatever the registry on disk holds
ValidateAndCommit_NoGate(what, names, next) ==
    /\ files' = GuardCommitFiles(files, mp_guard[1])
    /\ mp_guard' = <<>>
    /\ log' = Append(log, "commit")
    /\ result' = IF next = "done" THEN Ok(names, <<>>)
                  ELSE [NoResult EXCEPT !.names = names]
    /\ pc' = next
    /\ UNCHANGED plugin_guards

\* phase 7 of execute_add and the validation of remove_plugins: reload,
\* validate, then drop the guard (restore) or commit it
ValidateAndCommit(what, names, next) ==
    IF fault = "reload" \/ ~LoadOk(files, dirs)
    THEN Fail(Err("Other", "reload failed", "validate"), files) /\ log' = Append(log, "restore")
    ELSE IF has_errors(validate_marketplace(dirs, files[MarketplacePath]))
    THEN Fail(Err("AtomicRollback", what, "validate"), files) /\ log' = Append(log, "restore")
    ELSE /\ files' = GuardCommitFiles(files, mp_guard[1])
         /\ mp_guard' = <<>>
         /\ log' = Append(log, "commit")
         /\ result' = IF next = "done" THEN Ok(names, <<>>)
                       ELSE [NoResult EXCEPT !.names = names]
         /\ pc' = next
         /\ UNCHANGED plugin_guards

AddValidate ==
    /\ pc = "add_validate"
    /\ ValidateAndCommit("Final validation failed after add", AddedNames(plan), "done")
    /\ UNCHANGED <<dirs, clock, config, args, plan, idx, pre, edits, harnessVars>>

(***************************************************************************)
(* Remove (ops/remove.rs).                                                 *)
(***************************************************************************)
Target(n, p) == [name |-> n, path |-> p]

\* a containment test that accepts every path
starts_with_Any(path, base) == TRUE

\* Path::starts_with
starts_with(path, base) == IsPrefix(base, path)

RECURSIVE DeleteTargets(_, _, _, _, _, _)
\* remove_plugins: the loop that pre-computes the delete targets
DeleteTargets(ds, cfg, names, allow_external_delete, i, targets) ==
    IF i > Len(names) THEN [ok |-> TRUE, targets |-> targets, err |-> NoResult]
    ELSE
    LET entry == cfg.marketplace.plugins[FindEntry(cfg.marketplace.plugins, names[i])]
        plugin_path == resolve_source(entry.source)
        resolved == Canonicalize(plugin_path)
        is_internal == starts_with(resolved, Canonicalize(PluginRoot))
    IN
    IF ~IsDir(ds, plugin_path)
    THEN DeleteTargets(ds, cfg, names, allow_external_delete, i + 1, targets)
    ELSE IF ~is_internal /\ ~allow_external_delete
    THEN [ok |-> FALSE, targets |-> <<>>,
          err |-> Err("Other", "Refusing to delete: path is outside pluginRoot", "authorize")]
    ELSE DeleteTargets(ds, cfg, names, allow_external_delete, i + 1,
                       Append(targets, Target(names[i], resolved)))

\* a lookup that reports the last name that is not registered
FirstMissing_Last(cfg, names) ==
    LET miss == {i \in 1..Len(names) : ~HasName(cfg.marketplace.plugins, names[i])} IN
    IF miss = {} THEN 0 ELSE CHOOSE i \in miss : \A j \in miss : i >= j

\* the first name of the call that is not in the snapshot, 0 if all are
FirstMissing(cfg, names) ==
    LET miss == {i \in 1..Len(names) : ~HasName(cfg.marketplace.plugins, names[i])} IN
    IF miss = {} THEN 0 ELSE CHOOSE i \in miss : \A j \in miss : i <= j

RemoveNames == {"a", "b", "c", "n", "zz"}
NameLists(S) == {<<>>} \cup InputLists(S)

\* remove_plugins up to the acquisition of the guard
StartRemove(names, delete_files, allow_external_delete) ==
    /\ Enter([op |-> "remove", names |-> names, delete_files |-> delete_files,
              allow_external_delete |-> allow_external_delete])
    /\ LET t == DeleteTargets(dirs, config, names, allow_external_delete, 1, <<>>) IN
       IF names = <<>>
       THEN pc' = "done" /\ result' = Ok(<<>>, <<>>) /\ plan' = <<>>
       ELSE IF FirstMissing(config, names) # 0
       THEN /\ pc' = "done" /\ plan' = <<>>
            /\ result' = Err("PluginNotFound", names[FirstMissing(config, names)], "resolve")
       ELSE IF delete_files /\ ~IsDir(dirs, PluginRoot)
       THEN pc' = "done" /\ plan' = <<>> /\ result' = Err("Io", "canonicalize", "authorize")
       ELSE IF delete_files /\ ~t.ok
       THEN pc' = "done" /\ plan' = <<>> /\ result' = t.err
       ELSE /\ pc' = "rm_guard"
            /\ plan' = IF delete_files THEN t.targets ELSE <<>>
            /\ UNCHANGED result
    /\ UNCHANGED <<files, dirs, idx, mp_guard, plugin_guards, log>>

RmGuard ==
    /\ pc = "rm_guard"
    /\ AcquireMpGuard("rm_update")
    /\ UNCHANGED <<dirs, clock, config, args, plan, idx, pre, edits, harnessVars>>

\* a removal that writes the remaining entries in reverse order
RetainLoop_Reversed(plugins, names, i, removed) ==
    LET kept == SelectSeq(plugins, LAMBDA p : \A k \in 1..Len(names) : p.name # names[k]) IN
    [plugins |-> [k \in 1..Len(kept) |-> kept[Len(kept) + 1 - k]],
     removed |-> SelectSeq(names, LAMBDA n : HasName(plugins, n))]

RECURSIVE RetainLoop(_, _, _, _)
\* remove_plugins: the loop that removes the entries, from name i on
RetainLoop(plugins, names, i, removed) ==
    IF i > Len(names) THEN [plugins |-> plugins, removed |-> removed]
    ELSE IF HasName(plugins, names[i])
    THEN RetainLoop(SelectSeq(plugins, LAMBDA p : p.name # names[i]), names, i + 1,
                    Append(removed, names[i]))
    ELSE RetainLoop(plugins, names, i + 1, removed)

\* remove_plugins: re-read, remove the entries, bump, write back
RmUpdate ==
    /\ pc = "rm_update"
    /\ LET content == ReadRegistry(files, config)
           r == RetainLoop(content.plugins, args.names, 1, <<>>)
       IN
       IF fault = "read" \/ content.kind = "absent"
       THEN Fail(Err("Io", "read marketplace.json", "update"), files)
            /\ UNCHANGED log
       ELSE IF content.kind # "mp" THEN Fail(Err("Json", "marketplace.json", "update"), files)
            /\ UNCHANGED log
       ELSE IF ~content.version.ok THEN Fail(Err("Semver", "version", "update"), files)
            /\ UNCHANGED log
       ELSE
         \/ /\ Overflows("patch", content.version)
            /\ Fail(Panic, files)
            /\ UNCHANGED log
         \/ IF fault \in WriteFaults
            THEN Fail(Err("Io", "write marketplace.json", "update"),
                      FailedWrite(files, MarketplacePath)) /\ UNCHANGED log
            ELSE /\ files' = WriteMarketplace(files, bump_patch(content.version), r.plugins)
                 /\ log' = Append(log, "write")
                 /\ pc' = "rm_validate"
                 /\ result' = [NoResult EXCEPT !.names = r.removed]
                 /\ UNCHANGED <<mp_guard, plugin_guards>>
    /\ UNCHANGED <<dirs, clock, config, args, plan, idx, pre, edits, harnessVars>>

RmValidate ==
    /\ pc = "rm_validate"
    /\ ValidateAndCommit("Validation failed after remove", result.names,
                         IF plan = <<>> THEN "done" ELSE "rm_delete")
    /\ idx' = 1
    /\ UNCHANGED <<dirs, clock, config, args, plan, pre, edits, harnessVars>>

\* remove_plugins: the directories are deleted after the commit, one per step
\* a deletion loop in which a failed deletion is an error of the call
RmDelete_FailsHard ==
    /\ pc = "rm_delete"
    /\ LET path == plan[idx].path
           failed == fault = "delete" /\ IsDir(dirs, path)
       IN
       /\ IF IsDir(dirs, path) /\ ~failed
          THEN /\ dirs' = RemoveDirAllDirs(dirs, path)
               /\ files' = RemoveDirAllFiles(files, path)
               /\ log' = Append(log, "delete")
          ELSE /\ UNCHANGED <<dirs, files>>
               /\ log' = IF failed THEN Append(log, "delete_failed") ELSE log
       /\ IF failed
          THEN pc' = "done" /\ result' = Err("Io", "remove_dir_all", "delete")
          ELSE IF idx = Len(plan)
          THEN pc' = "done" /\ result' = Ok(result.names, result.warnings)
          ELSE pc' = "rm_delete" /\ result' = result
    /\ idx' = idx + 1
    /\ fault' = IF fault = "delete" THEN "none" ELSE fault
    /\ UNCHANGED <<clock, config, args, plan, mp_guard, plugin_guards, pre, edits, held,
                   last, hist>>

RmDelete ==
    /\ pc = "rm_delete"
    /\ LET path == plan[idx].path
           failed == fault = "delete" /\ IsDir(dirs, path)
           warnings == IF failed THEN Append(result.warnings, plan[idx].name)
                       ELSE result.warnings
       IN
       /\ IF IsDir(dirs, path) /\ ~failed
          THEN /\ dirs' = RemoveDirAllDirs(dirs, path)
               /\ files' = RemoveDirAllFiles(files, path)
               /\ log' = Append(log, "delete")
          ELSE /\ UNCHANGED <<dirs, files>>
               /\ log' = IF failed THEN Append(log, "delete_failed") ELSE log
       /\ IF idx = Len(plan)
          THEN pc' = "done" /\ result' = Ok(result.names, warnings)
          ELSE pc' = "rm_delete" /\ result' = [result EXCEPT !.warnings = warnings]
    /\ idx' = idx + 1
    /\ fault' = IF fault = "delete" THEN "none" ELSE fault
    /\ UNCHANGED <<clock, config, args, plan, mp_guard, plugin_guards, pre, edits, held,
                   last, hist>>

(***************************************************************************)
(* Update (ops/update.rs).                                                 *)
(***************************************************************************)
BumpTypes == {"none", "patch"}
AllBumpTypes == {"none", "major", "minor", "patch"}

Bump(bump, v) ==
    CASE bump = "major" -> bump_major(v)
      [] bump = "minor" -> bump_minor(v)
      [] OTHER -> bump_patch(v)

\* update_plugins: the (name, plugin_path) pairs resolved from the snapshot
PluginPaths(cfg, names) ==
    [i \in 1..Len(names) |->
        Target(names[i],
               resolve_source(cfg.marketplace.plugins[
                   FindEntry(cfg.marketplace.plugins, names[i])].source))]

\* update_plugins up to the acquisition of the guards
StartUpdate(names, bump_type) ==
    /\ Enter([op |-> "update", names |-> names, bump_type |-> bump_type])
    /\ IF names = <<>>
       THEN pc' = "done" /\ result' = Ok(<<>>, <<>>) /\ plan' = <<>>
       ELSE IF FirstMissing(config, names) # 0
       THEN /\ pc' = "done" /\ plan' = <<>>
            /\ result' = Err("PluginNotFound", names[FirstMissing(config, names)], "resolve")
       ELSE /\ pc' = "up_guard"
            /\ plan' = PluginPaths(config, names)
            /\ UNCHANGED result
    /\ UNCHANGED <<files, dirs, idx, mp_guard, plugin_guards, log>>

\* an update that guards the registry only
UpGuardMp_RegistryOnly ==
    /\ pc = "up_guard"
    /\ AcquireMpGuard(IF args.bump_type # "none" THEN "up_bump" ELSE "up_entries")
    /\ idx' = 1
    /\ UNCHANGED <<dirs, clock, config, args, plan, pre, edits, harnessVars>>

\* update_plugins: the guard over marketplace.json
UpGuardMp ==
    /\ pc = "up_guard"
    /\ AcquireMpGuard(IF args.bump_type # "none" THEN "up_guard_pj" ELSE "up_entries")
    /\ idx' = 1
    /\ UNCHANGED <<dirs, clock, config, args, plan, pre, edits, harnessVars>>

\* update_plugins: one guard per plugin.json, one per step
UpGuardPj ==
    /\ pc = "up_guard_pj"
    /\ LET plugin_json_path == PluginJsonPath(plan[idx].path) IN
       IF fault = "guard" /\ Exists(files, plugin_json_path)
       THEN Fail(Err("Io", "backup of plugin.json", "guard"), files) /\ UNCHANGED <<log, idx>>
       ELSE /\ plugin_guards' = Append(plugin_guards,
                                       GuardNew(files, plugin_json_path, clock))
            /\ files' = GuardNewFiles(files, plugin_json_path, clock)
            /\ log' = Append(log, "guard")
            /\ idx' = IF idx = Len(plan) THEN 1 ELSE idx + 1
            /\ pc' = IF idx = Len(plan) THEN "up_bump" ELSE "up_guard_pj"
            /\ UNCHANGED <<mp_guard, result>>
    /\ UNCHANGED <<dirs, clock, config, args, plan, pre, edits, harnessVars>>

\* update_plugins: the version bump of one plugin.json per step
UpBump ==
    /\ pc = "up_bump"
    /\ LET plugin_json_path == PluginJsonPath(plan[idx].path)
           doc == ReadFile(files, plugin_json_path)
       IN
       IF fault = "read" \/ doc.kind = "absent"
       THEN Fail(Err("Other", "Cannot read plugin.json", "bump"), files)
            /\ UNCHANGED <<log, idx>>
       ELSE IF doc.kind # "pj"
       THEN Fail(Err("Json", "plugin.json", "bump"), files) /\ UNCHANGED <<log, idx>>
       ELSE IF doc.hasVersion /\ ~doc.version.ok
       THEN Fail(Err("Semver", "plugin version", "bump"), files) /\ UNCHANGED <<log, idx>>
       ELSE IF fault \in WriteFaults
       THEN Fail(Err("Other", "Cannot write plugin.json", "bump"),
                 FailedWrite(files, plugin_json_path)) /\ UNCHANGED <<log, idx>>
       ELSE
         \/ /\ doc.hasVersion /\ Overflows(args.bump_type, doc.version)
            /\ Fail(Panic, files)
            /\ UNCHANGED <<log, idx>>
         \/ /\ files' = WriteFile(files, plugin_json_path,
                          [doc EXCEPT !.fmt = "pretty",
                                      !.version = IF doc.hasVersion
                                                  THEN Bump(args.bump_type, doc.version)
                                                  ELSE doc.version])
            /\ log' = Append(log, "write")
            /\ idx' = IF idx = Len(plan) THEN 1 ELSE idx + 1
            /\ pc' = IF idx = Len(plan) THEN "up_entries" ELSE "up_bump"
            /\ UNCHANGED <<mp_guard, plugin_guards, result>>
    /\ UNCHANGED <<dirs, clock, config, args, plan, pre, edits, harnessVars>>

SeqToSet(q) == {q[i] : i \in 1..Len(q)}

RECURSIVE UpdateLoop(_, _, _, _, _, _, _)
\* update_plugins: the loop that refreshes the entries, from pair i on
UpdateLoop(fs, ds, plugins, names, paths, i, rename_targets) ==
    IF i > Len(paths) THEN [ok |-> TRUE, plugins |-> plugins, err |-> NoResult]
    ELSE
    LET name == paths[i].name
        manifest == ReadFile(fs, PluginJsonPath(paths[i].path))
        new_name == manifest.name
        renamed == new_name # NoStr /\ new_name # name
        collides == \E k \in 1..Len(plugins) :
                        plugins[k].name = new_name /\ plugins[k].name \notin SeqToSet(names)
        e == FindEntry(plugins, name)
        updated == IF e = 0 THEN plugins
                   ELSE [plugins EXCEPT ![e] =
                            Entry(IF renamed THEN new_name ELSE plugins[e].name,
                                  plugins[e].source, manifest.keywords)]
        fail(x) == [ok |-> FALSE, plugins |-> plugins, err |-> x]
    IN
    IF manifest.kind = "absent" THEN fail(Err("Other", "Cannot read plugin.json", "entries"))
    ELSE IF manifest.kind # "pj" THEN fail(Err("Json", "plugin.json", "entries"))
    ELSE IF renamed /\ new_name \in rename_targets
    THEN fail(Err("Other", "would both be renamed", "entries"))
    ELSE IF renamed /\ collides
    THEN fail(Err("Other", "conflicts with an existing plugin", "entries"))
    ELSE IF has_errors(validate_plugin(fs, ds, paths[i].path))
    THEN fail(Err("AtomicRollback", "Plugin validation failed", "entries"))
    ELSE UpdateLoop(fs, ds, updated, names, paths, i + 1,
                    IF renamed THEN rename_targets \cup {new_name} ELSE rename_targets)

\* update_plugins: re-read the registry, refresh the entries, bump, write back
UpEntries ==
    /\ pc = "up_entries"
    /\ LET content == ReadRegistry(files, config)
           u == UpdateLoop(files, dirs, content.plugins, args.names, plan, 1, {})
       IN
       IF fault = "read" \/ content.kind = "absent"
       THEN Fail(Err("Io", "read marketplace.json", "entries"), files)
            /\ UNCHANGED log
       ELSE IF content.kind # "mp" THEN Fail(Err("Json", "marketplace.json", "entries"), files)
            /\ UNCHANGED log
       ELSE IF ~u.ok THEN Fail(u.err, files) /\ UNCHANGED log
       ELSE IF ~content.version.ok THEN Fail(Err("Semver", "version", "entries"), files)
            /\ UNCHANGED log
       ELSE
         \/ /\ Overflows("patch", content.version)
            /\ Fail(Panic, files)
            /\ UNCHANGED log
         \/ IF fault \in WriteFaults
            THEN Fail(Err("Io", "write marketplace.json", "entries"),
                      FailedWrite(files, MarketplacePath)) /\ UNCHANGED log
            ELSE /\ files' = WriteMarketplace(files, bump_patch(content.version), u.plugins)
                 /\ log' = Append(log, "write")
                 /\ pc' = "up_validate"
                 /\ UNCHANGED <<mp_guard, plugin_guards, result>>
    /\ UNCHANGED <<dirs, clock, config, args, plan, idx, pre, edits, harnessVars>>

\* a commit of the guard on the registry alone
CommitAll_First(fs, guards) ==
    IF guards = <<>> THEN fs ELSE GuardCommitFiles(fs, Head(guards))

RECURSIVE CommitAll(_, _)
CommitAll(fs, guards) ==
    IF guards = <<>> THEN fs ELSE CommitAll(GuardCommitFiles(fs, Head(guards)), Tail(guards))

\* mp_guard.commit()?; for g in plugin_guards { g.commit()?; } when the
\* removal of the backup of guard k fails: the guards before k are
\* committed, guard k is marked committed and keeps its backup, the guards
\* after k are dropped by the early return and restore their files
CommitFailsAt(fs, guards, k) ==
    DropAll(CommitAll(fs, SubSeq(guards, 1, k - 1)), SubSeq(guards, k + 1, Len(guards)))

\* update_plugins: final validation, then commit of every guard
UpValidate ==
    /\ pc = "up_validate"
    /\ IF fault = "reload" \/ ~LoadOk(files, dirs)
       THEN Fail(Err("Other", "reload failed", "validate"), files)
            /\ log' = Append(log, "restore")
       ELSE IF has_errors(validate_marketplace(dirs, files[MarketplacePath]))
       THEN Fail(Err("AtomicRollback", "Marketplace validation failed after update",
                     "validate"), files)
            /\ log' = Append(log, "restore")
       ELSE IF fault = "commit"
       THEN \E k \in 1..Len(mp_guard \o plugin_guards) :
               /\ files' = CommitFailsAt(files, mp_guard \o plugin_guards, k)
               /\ mp_guard' = <<>>
               /\ plugin_guards' = <<>>
               /\ log' = Append(log, "commit_failed")
               /\ result' = Err("Io", "remove backup", "commit")
               /\ pc' = "done"
       ELSE /\ files' = CommitAll(files, mp_guard \o plugin_guards)
            /\ mp_guard' = <<>>
            /\ plugin_guards' = <<>>
            /\ log' = Append(log, "commit")
            /\ result' = Ok(args.names, <<>>)
            /\ pc' = "done"
    /\ UNCHANGED <<dirs, clock, config, args, plan, idx, pre, edits, harnessVars>>

(***************************************************************************)
(* Before the invocation: the user edits the disk, the command loads its   *)
(* configuration (or keeps the snapshot it loaded before the edit).       *)
(***************************************************************************)
\* load_marketplace_config, as run by a command before it calls a pipeline
LoadConfig ==
    /\ pc = "idle"
    /\ config # load_marketplace_config(files, dirs)
    /\ config' = load_marketplace_config(files, dirs)
    /\ UNCHANGED <<files, dirs, clock, pc, args, plan, idx, mp_guard, plugin_guards, result,
                   pre, log, edits, harnessVars>>

EditableDirs == {PluginRoot \o <<"a">>}

ManifestEdits(m) ==
    {[m EXCEPT !.name = "b"], [m EXCEPT !.name = "n"], [m EXCEPT !.description = FALSE],
     [m EXCEPT !.version = BadVer], Garbage}

\* the user rewrites the plugin.json of a plugin under the plugin root
EditManifest(d, c) ==
    /\ pc = "idle"
    /\ edits < MaxEdits
    /\ Exists(files, PluginJsonPath(d))
    /\ files' = WriteFile(files, PluginJsonPath(d), c)
    /\ edits' = edits + 1
    /\ pre' = [files |-> files', dirs |-> dirs]
    /\ UNCHANGED <<dirs, clock, config, pc, args, plan, idx, mp_guard, plugin_guards, result,
                   log, harnessVars>>

RegistryEdits(m) ==
    {[m EXCEPT !.version = BadVer], Garbage,
     [m EXCEPT !.plugins = Append(m.plugins, Entry("n", <<"a">>, <<>>))]}

\* the user rewrites marketplace.json after the command loaded its snapshot;
\* the entry n is a second entry for the directory of a, which is what
\* adding a again leaves behind once its plugin.json calls itself n
EditRegistry(c) ==
    /\ pc = "idle"
    /\ edits < MaxEdits
    /\ files' = WriteFile(files, MarketplacePath, c)
    /\ edits' = edits + 1
    /\ pre' = [files |-> files', dirs |-> dirs]
    /\ UNCHANGED <<dirs, clock, config, pc, args, plan, idx, mp_guard, plugin_guards, result,
                   log, harnessVars>>

\* the user deletes the directory of plugin a
DeleteDir ==
    /\ pc = "idle"
    /\ edits < MaxEdits
    /\ IsDir(dirs, PluginRoot \o <<"a">>)
    /\ dirs' = RemoveDirAllDirs(dirs, PluginRoot \o <<"a">>)
    /\ files' = RemoveDirAllFiles(files, PluginRoot \o <<"a">>)
    /\ edits' = edits + 1
    /\ pre' = [files |-> files', dirs |-> dirs']
    /\ UNCHANGED <<clock, config, pc, args, plan, idx, mp_guard, plugin_guards, result,
                   log, harnessVars>>

ExtraFile == PluginRoot \o <<"a", "README">>

\* the user adds a file to the directory of plugin a
AddExtraFile ==
    /\ pc = "idle"
    /\ edits < MaxEdits
    /\ IsDir(dirs, PluginRoot \o <<"a">>)
    /\ ~Exists(files, ExtraFile)
    /\ files' = WriteFile(files, ExtraFile, Garbage)
    /\ edits' = edits + 1
    /\ pre' = [files |-> files', dirs |-> dirs]
    /\ UNCHANGED <<dirs, clock, config, pc, args, plan, idx, mp_guard, plugin_guards, result,
                   log, harnessVars>>

Environment ==
    \/ LoadConfig
    \/ \E d \in {e \in EditableDirs :
                    ReadFile(files, PluginJsonPath(e)).kind = "pj"} :
          \E c \in ManifestEdits(files[PluginJsonPath(d)]) : EditManifest(d, c)
    \/ \E c \in IF ReadFile(files, MarketplacePath).kind = "mp"
                 THEN RegistryEdits(files[MarketplacePath]) ELSE {} : EditRegistry(c)
    \/ DeleteDir
    \/ AddExtraFile

Add ==
    \/ \E inputs \in InputLists(AddInputs), strategy \in Strategies, no_copy \in BOOLEAN :
          PlanAdd(inputs, strategy, no_copy)
    \/ \E dry_run \in BOOLEAN : ExecuteAdd(dry_run)
    \/ AddCopy
    \/ AddGuard
    \/ AddUpdate
    \/ AddValidate

Remove ==
    \/ \E names \in NameLists(RemoveNames), delete_files \in BOOLEAN,
          allow_external_delete \in BOOLEAN :
          StartRemove(names, delete_files, allow_external_delete)
    \/ RmGuard
    \/ RmUpdate
    \/ RmValidate
    \/ RmDelete

Update ==
    \/ \E names \in NameLists(RemoveNames), bump_type \in BumpTypes :
          StartUpdate(names, bump_type)
    \/ UpGuardMp
    \/ UpGuardPj
    \/ UpBump
    \/ UpEntries
    \/ UpValidate

(***************************************************************************)
(* The guard on its own: guards are acquired over files, the files are     *)
(* written, the guards are committed or dropped, in any order.  At most    *)
(* one live guard per file.                                                *)
(***************************************************************************)
HarnessFiles == {MarketplacePath, PluginJsonPath(PluginRoot \o <<"a">>)}
HarnessContents == {Garbage, Manifest("a"), MpDoc("raw", Ver(0, 1, 0), <<>>)}

GuardOp(op, g, acquired, before) ==
    [op |-> op, guard |-> g, existed |-> acquired # Absent, acquired |-> acquired,
     before |-> before]

Without(q, i) == SubSeq(q, 1, i - 1) \o SubSeq(q, i + 1, Len(q))

pipelineVarsNoFault == <<config, pc, args, plan, idx, mp_guard, plugin_guards, result, pre,
                         log, edits, hist>>

pipelineVars == <<config, pc, args, plan, idx, mp_guard, plugin_guards, result, pre, log,
                  edits, fault, hist>>

GuardInit ==
    /\ \E present \in SUBSET HarnessFiles :
          \E f \in [present -> HarnessContents] : files = f
    /\ dirs = WorldDirs("none", "none")
    /\ clock = 0
    /\ held = <<>>
    /\ last = NoGuardOp
    /\ config = [loaded |-> FALSE, marketplace |-> Absent]
    /\ Idle
    /\ pre = [files |-> files, dirs |-> dirs]
    /\ edits = 0
    /\ fault = "none"
    /\ hist = <<>>

\* let guard = AtomicGuard::new(p)?
HNew(p) ==
    /\ \A i \in 1..Len(held) : held[i].guard.original_path # p
    /\ held' = Append(held, [guard |-> GuardNew(files, p, clock),
                             acquired |-> ReadFile(files, p)])
    /\ files' = GuardNewFiles(files, p, clock)
    /\ last' = GuardOp("new", GuardNew(files, p, clock), ReadFile(files, p), files)
    /\ UNCHANGED <<dirs, clock, pipelineVars>>

\* fs::write(p, c)
HWrite(p, c) ==
    /\ ReadFile(files, p) # c
    /\ files' = WriteFile(files, p, c)
    /\ last' = GuardOp("write", NoGuard, ReadFile(files, p), files)
    /\ UNCHANGED <<dirs, clock, held, pipelineVars>>

\* guard.commit(): commit consumes the guard, which is then dropped
HCommit(i) ==
    /\ i \in 1..Len(held)
    /\ LET g == held[i].guard IN
       /\ files' = GuardDropFiles(GuardCommitFiles(files, g), GuardCommit(g))
       /\ last' = GuardOp("commit", GuardCommit(g), held[i].acquired, files)
    /\ held' = Without(held, i)
    /\ UNCHANGED <<dirs, clock, pipelineVars>>

\* the guard goes out of scope uncommitted
HDrop(i) ==
    /\ i \in 1..Len(held)
    /\ files' = GuardDropFiles(files, held[i].guard)
    /\ last' = GuardOp("drop", held[i].guard, held[i].acquired, files)
    /\ held' = Without(held, i)
    /\ UNCHANGED <<dirs, clock, pipelineVars>>

\* a second passes
Tick ==
    /\ clock < MaxClock
    /\ clock' = clock + 1
    /\ UNCHANGED <<files, dirs, held, last, pipelineVars>>

GuardNext ==
    \/ \E p \in HarnessFiles : HNew(p)
    \/ \E p \in HarnessFiles, c \in HarnessContents : HWrite(p, c)
    \/ \E i \in 1..Len(held) : HCommit(i)
    \/ \E i \in 1..Len(held) : HDrop(i)
    \/ Tick

SpecGuard == GuardInit /\ [][GuardNext]_vars

(***************************************************************************)
(* The teardown of a guard whose restore copy fails.  fs::copy truncates   *)
(* its destination before it writes: a copy that fails leaves the original *)
(* as it was or with part of the bytes.  The results of both calls of the  *)
(* teardown are discarded, and the second call is made whatever the first  *)
(* returned.                                                               *)
(***************************************************************************)
\* Drop for AtomicGuard when fs::copy(backup, original) returns an error
GuardDropFilesCopyFails(fs, g, partial) ==
    IF g.committed THEN fs
    ELSE IF g.backup_path # NoPath /\ Exists(fs, g.backup_path)
         THEN RemoveFile(IF partial THEN WriteFile(fs, g.original_path, Garbage) ELSE fs,
                         g.backup_path)
         ELSE fs

\* the guard goes out of scope uncommitted and the restore copy fails
HDropCopyFails(i, partial) ==
    /\ i \in 1..Len(held)
    /\ held[i].guard.backup_path # NoPath
    /\ Exists(files, held[i].guard.backup_path)
    /\ files' = GuardDropFilesCopyFails(files, held[i].guard, partial)
    /\ last' = GuardOp("drop_copy_failed", held[i].guard, held[i].acquired, files)
    /\ held' = Without(held, i)
    /\ UNCHANGED <<dirs, clock, pipelineVars>>

GuardNextIO ==
    \/ GuardNext
    \/ \E i \in 1..Len(held), partial \in BOOLEAN : HDropCopyFails(i, partial)

SpecGuardIO == GuardInit /\ [][GuardNextIO]_vars

Next == Add \/ Remove \/ Update \/ Environment

Spec == Init /\ [][Next]_vars

(***************************************************************************)
(* I/O failures.  One operation of the invocation in progress fails: the   *)
(* backup copy of AtomicGuard::new, the read of a manifest, an fs::write   *)
(* (which leaves the file as it was or truncated), or the reload of the    *)
(* registry, or the fs::remove_dir_all of a plugin directory.  The removal  *)
(* of a backup and the restore copy are kept reliable here.                *)
(***************************************************************************)
Faults == {"guard", "read", "write", "write_partial", "reload", "delete"}

FaultAt(f) ==
    CASE f = "guard" -> {"add_guard", "rm_guard", "up_guard", "up_guard_pj"}
      [] f = "reload" -> {"add_validate", "rm_validate", "up_validate"}
      [] f = "delete" -> {"rm_delete"}
      [] OTHER -> {"add_update", "rm_update", "up_bump", "up_entries"}

\* the next operation of kind f is going to fail
IOFails(f) ==
    /\ fault = "none"
    /\ pc \in FaultAt(f)
    /\ fault' = f
    /\ UNCHANGED <<files, dirs, clock, held, last, pipelineVarsNoFault>>

NextIO == Next \/ \E f \in Faults : IOFails(f)

SpecIO == Init /\ [][NextIO]_vars

(***************************************************************************)
(* The rename resolution on its own: generate_unique_name applied to a     *)
(* name and a set of existing names.                                       *)
(***************************************************************************)
BaseNames == {"foo", "bar"}
Suffixed(b, k) == b \o "-" \o ToString(k)
NameUniverse == BaseNames \cup {Suffixed(b, k) : b \in BaseNames, k \in 1..MaxSuffix}

NameInit ==
    /\ files = <<>>
    /\ dirs = {}
    /\ clock = 0
    /\ held = <<>>
    /\ last = NoGuardOp
    /\ config = [loaded |-> FALSE, marketplace |-> Absent]
    /\ pc = "idle"
    /\ \E base \in BaseNames, existing \in SUBSET NameUniverse :
          args = [op |-> "rename", base |-> base, existing |-> existing]
    /\ plan = <<>>
    /\ idx = 0
    /\ mp_guard = <<>>
    /\ plugin_guards = <<>>
    /\ result = NoResult
    /\ log = <<>>
    /\ pre = [files |-> files, dirs |-> dirs]
    /\ edits = 0
    /\ fault = "none"
    /\ hist = <<>>

\* let new_name = generate_unique_name(&plugin_name, &existing_names)
ResolveName ==
    /\ pc = "idle"
    /\ pc' = "done"
    /\ result' = Ok(<<generate_unique_name(args.base, args.existing)>>, <<>>)
    /\ UNCHANGED <<files, dirs, clock, held, last, config, args, plan, idx, mp_guard,
                   plugin_guards, pre, log, edits, fault, hist>>

SpecName == NameInit /\ [][ResolveName]_vars

(***************************************************************************)
(* The version bumps on their own: bump_major, bump_minor and bump_patch   *)
(* applied to a version string.                                            *)
(***************************************************************************)
Components == {0, 1, MaxComponent}
BumpInputs ==
    {BadVer} \cup {[Ver(ma, mi, pa) EXCEPT !.pre = p] :
                     ma \in Components, mi \in Components, pa \in Components,
                     p \in BOOLEAN}

BumpInit ==
    /\ files = <<>>
    /\ dirs = {}
    /\ clock = 0
    /\ held = <<>>
    /\ last = NoGuardOp
    /\ config = [loaded |-> FALSE, marketplace |-> Absent]
    /\ pc = "idle"
    /\ \E bump \in AllBumpTypes \ {"none"}, v \in BumpInputs :
          args = [op |-> "bump", bump_type |-> bump, version |-> v]
    /\ plan = <<>>
    /\ idx = 0
    /\ mp_guard = <<>>
    /\ plugin_guards = <<>>
    /\ result = NoResult
    /\ log = <<>>
    /\ pre = [files |-> files, dirs |-> dirs]
    /\ edits = 0
    /\ fault = "none"
    /\ hist = <<>>

\* bump_major / bump_minor / bump_patch: the bumped version is left in plan
BumpVersion ==
    /\ pc = "idle"
    /\ pc' = "done"
    /\ IF ~args.version.ok
       THEN result' = Err("Semver", "version", "bump") /\ plan' = <<>>
       ELSE \/ /\ Overflows(args.bump_type, args.version)
               /\ result' = Panic
               /\ plan' = <<>>
            \/ /\ result' = Ok(<<>>, <<>>)
               /\ plan' = <<Bump(args.bump_type, args.version)>>
    /\ UNCHANGED <<files, dirs, clock, held, last, config, args, idx, mp_guard,
                   plugin_guards, pre, log, edits, fault, hist>>

SpecBump == BumpInit /\ [][BumpVersion]_vars

(***************************************************************************)
(* The validators on their own: validate_marketplace on a registry and a   *)
(* plugin root, validate_plugin on the directory plugins/a.                *)
(***************************************************************************)
ValDirNames == {"a", "b", "c"}
ValSources == {<<"a">>, <<"b">>, ExtRoot \o <<"c">>, <<"sub", "a">>}
ValEntryLists ==
    {<<>>} \cup {<<Entry(Last(s), s, <<>>)>> : s \in ValSources}
           \cup {<<Entry(Last(s), s, <<>>), Entry(Last(t) \o "-2", t, <<>>)>> :
                   s \in ValSources, t \in ValSources}

\* the object {} as a manifest
EmptyObject == PjDoc("raw", NoStr, FALSE, BadVer, FALSE, <<>>)

ValManifests ==
    {Garbage, Absent}
    \cup {PjDoc("raw", n, hv, v, d, <<>>) :
            n \in {"a", NoStr}, hv \in {TRUE}, v \in {Ver(1, 0, 0), BadVer}, d \in BOOLEAN}
    \cup {PjDoc("raw", n, FALSE, BadVer, d, <<>>) : n \in {"a", NoStr}, d \in BOOLEAN}

ValExtends == {Absent, Garbage, ExtendsDoc(TRUE), ExtendsDoc(FALSE)}

ValFiles(present, entries, m, e) ==
    LET a == PluginRoot \o <<"a">>
        qs == {MarketplacePath}
              \cup (IF "a" \in present /\ m # Absent THEN {PluginJsonPath(a)} ELSE {})
              \cup (IF "a" \in present /\ e # Absent THEN {ExtendsPath(a)} ELSE {})
    IN [q \in qs |-> IF q = MarketplacePath THEN MpDoc("raw", Ver(0, 1, 0), entries)
                     ELSE IF q = PluginJsonPath(a) THEN m ELSE e]

ValInit ==
    /\ \E present \in SUBSET ValDirNames, entries \in ValEntryLists,
          m \in ValManifests, e \in ValExtends :
          /\ ("a" \notin present) => (m = Absent /\ e = Absent)
          /\ dirs = {<<"/">>, ProjectRoot, ProjectRoot \o <<".claude-plugin">>, PluginRoot}
                    \cup UNION {PluginDirs(PluginRoot \o <<n>>) : n \in present}
          /\ files = ValFiles(present, entries, m, e)
    /\ clock = 0
    /\ held = <<>>
    /\ last = NoGuardOp
    /\ config = load_marketplace_config(files, dirs)
    /\ Idle
    /\ pre = [files |-> files, dirs |-> dirs]
    /\ edits = 0
    /\ fault = "none"
    /\ hist = <<>>

\* souk validate marketplace --skip-plugins: the diagnostics are left in plan
ValidateMarketplace ==
    /\ pc = "idle"
    /\ config.loaded
    /\ pc' = "done"
    /\ args' = [op |-> "validate_marketplace"]
    /\ plan' = validate_marketplace(dirs, config.marketplace)
    /\ UNCHANGED <<files, dirs, clock, held, last, config, idx, mp_guard,
                   plugin_guards, result, pre, log, edits, fault, hist>>

\* validate_plugin on plugins/a: the diagnostics are left in plan
ValidatePlugin ==
    /\ pc = "idle"
    /\ pc' = "done"
    /\ args' = [op |-> "validate_plugin", path |-> PluginRoot \o <<"a">>]
    /\ plan' = validate_plugin(files, dirs, PluginRoot \o <<"a">>)
    /\ UNCHANGED <<files, dirs, clock, held, last, config, idx, mp_guard,
                   plugin_guards, result, pre, log, edits, fault, hist>>

ValNext == ValidateMarketplace \/ ValidatePlugin

SpecValidate == ValInit /\ [][ValNext]_vars

(***************************************************************************)
(* A project over several commands: souk init, then add, update, remove    *)
(* and prune, each command loading its configuration afresh, with the user *)
(* creating or deleting a plugin directory in between.                     *)
(***************************************************************************)
MaxCalls == 4

LifeVersions == {Ver(1, 0, 0), Ver(0, 2, 9)}
LifeManifest(n, v) == PjDoc("raw", n, TRUE, v, TRUE, <<"kw-" \o n>>)

\* the project directory before souk init: no registry, an external plugin c
LifeInit ==
    /\ dirs = {<<"/">>, ProjectRoot, ExtRoot} \cup PluginDirs(ExtRoot \o <<"c">>)
    /\ files = [q \in {PluginJsonPath(ExtRoot \o <<"c">>)} |-> Manifest("c")]
    /\ clock = 0
    /\ held = <<>>
    /\ last = NoGuardOp
    /\ config = [loaded |-> FALSE, marketplace |-> Absent]
    /\ Idle
    /\ pre = [files |-> files, dirs |-> dirs]
    /\ edits = 0
    /\ fault = "none"
    /\ hist = <<>>

\* the user writes a plugin a, at some version, under the plugin root
CreatePlugin(v) ==
    /\ pc = "idle"
    /\ ~IsDir(dirs, PluginRoot \o <<"a">>)
    /\ dirs' = dirs \cup {PluginRoot} \cup PluginDirs(PluginRoot \o <<"a">>)
    /\ files' = WriteFile(files, PluginJsonPath(PluginRoot \o <<"a">>), LifeManifest("a", v))
    /\ UNCHANGED <<clock, config, pc, args, plan, idx, mp_guard, plugin_guards, result,
                   pre, log, edits, harnessVars>>

\* scaffold_marketplace(path, "./plugins")
Scaffold ==
    /\ pc = "idle"
    /\ Len(hist) < MaxCalls
    /\ args' = [op |-> "init"]
    /\ pre' = [files |-> files, dirs |-> dirs]
    /\ IF Exists(files, MarketplacePath)
       THEN /\ result' = Err("MarketplaceAlreadyExists", "marketplace.json", "init")
            /\ UNCHANGED <<files, dirs>>
       ELSE /\ dirs' = dirs \cup {ProjectRoot \o <<".claude-plugin">>, PluginRoot}
            /\ files' = WriteFile(files, MarketplacePath,
                                  MpDoc("pretty", Ver(0, 1, 0), <<>>))
            /\ result' = Ok(<<>>, <<>>)
    /\ pc' = "done"
    /\ UNCHANGED <<clock, config, plan, idx, mp_guard, plugin_guards, log, edits,
                   harnessVars>>

\* the orders in which a HashSet of paths may be iterated
Orders(S) == {q \in [1..Cardinality(S) -> S] : \A i, j \in DOMAIN q : q[i] = q[j] => i = j}

RECURSIVE RemoveAllDirs(_, _, _)
RemoveAllDirs(ds, q, i) ==
    IF i > Len(q) THEN ds ELSE RemoveAllDirs(RemoveDirAllDirs(ds, q[i]), q, i + 1)

RECURSIVE RemoveAllFiles(_, _, _)
RemoveAllFiles(fs, q, i) ==
    IF i > Len(q) THEN fs ELSE RemoveAllFiles(RemoveDirAllFiles(fs, q[i]), q, i + 1)

\* a prune that reports the orphans and deletes nothing
prune_plugins_ReportOnly(apply, orphaned, failing) ==
    /\ UNCHANGED <<files, dirs>>
    /\ result' = Ok([i \in 1..Len(orphaned) |-> Last(orphaned[i])], <<>>)

\* prune_plugins after find_orphaned_dirs returned; failing holds the
\* directories whose remove_dir_all fails.  names holds the orphans,
\* warnings the directories that could not be deleted.
prune_plugins(apply, orphaned, failing) ==
    LET deleted == SelectSeq(orphaned, LAMBDA o : o \notin failing)
        failed == SelectSeq(orphaned, LAMBDA o : o \in failing)
    IN
    /\ dirs' = IF apply THEN RemoveAllDirs(dirs, deleted, 1) ELSE dirs
    /\ files' = IF apply THEN RemoveAllFiles(files, deleted, 1) ELSE files
    /\ result' = Ok([i \in 1..Len(orphaned) |-> Last(orphaned[i])],
                    IF apply THEN [i \in 1..Len(failed) |-> Last(failed[i])] ELSE <<>>)

\* souk prune [--apply], the deletion of the directories of failing failing
PruneWith(apply, failing) ==
    /\ Enter([op |-> "prune", apply |-> apply])
    /\ IF ~IsDir(dirs, PluginRoot)
       THEN /\ result' = Err("Io", "read_dir of the plugin root", "prune")
            /\ UNCHANGED <<files, dirs>>
       ELSE \E orphaned \in Orders(find_orphaned_dirs(dirs, config.marketplace)) :
               prune_plugins(apply, orphaned, failing)
    /\ pc' = "done"
    /\ UNCHANGED <<plan, idx, mp_guard, plugin_guards, log>>

\* souk prune [--apply] on a disk that lets every directory be deleted
Prune(apply) == PruneWith(apply, {})

(***************************************************************************)
(* Prune on its own.  Under the plugin root there may be the directories   *)
(* a and b and a directory sub that holds the plugin directory sub/a; the  *)
(* registry holds up to two entries, by a source under the plugin root,    *)
(* nested or not, or by an absolute path.                                  *)
(***************************************************************************)
PruneDirNames == {"a", "b", "sub"}

PrunePluginDirs(n) ==
    IF n = "sub" THEN {PluginRoot \o <<"sub">>} \cup PluginDirs(PluginRoot \o <<"sub", "a">>)
    ELSE PluginDirs(PluginRoot \o <<n>>)

PruneManifests(present) ==
    {PluginJsonPath(PluginRoot \o <<n>>) : n \in present \ {"sub"}}
    \cup (IF "sub" \in present THEN {PluginJsonPath(PluginRoot \o <<"sub", "a">>)} ELSE {})

PruneInit ==
    /\ \E present \in SUBSET PruneDirNames, entries \in ValEntryLists :
          /\ dirs = {<<"/">>, ProjectRoot, ProjectRoot \o <<".claude-plugin">>, PluginRoot}
                    \cup UNION {PrunePluginDirs(n) : n \in present}
          /\ files = [q \in {MarketplacePath} \cup PruneManifests(present) |->
                        IF q = MarketplacePath THEN MpDoc("raw", Ver(0, 1, 0), entries)
                        ELSE Manifest(q[Len(q) - 2])]
    /\ clock = 0
    /\ held = <<>>
    /\ last = NoGuardOp
    /\ config = load_marketplace_config(files, dirs)
    /\ Idle
    /\ pre = [files |-> files, dirs |-> dirs]
    /\ edits = 0
    /\ fault = "none"
    /\ hist = <<>>

PruneNext ==
    \E apply \in BOOLEAN,
       failing \in SUBSET {PluginRoot \o <<n>> : n \in PruneDirNames} :
        PruneWith(apply, failing)

SpecPrune == PruneInit /\ [][PruneNext]_vars

\* the command exits; the next one starts without a configuration
Return ==
    /\ pc = "done"
    /\ hist' = Append(hist, [args |-> args, result |-> result, pre |-> pre])
    /\ pc' = "idle"
    /\ args' = [op |-> "none"]
    /\ plan' = <<>>
    /\ idx' = 0
    /\ result' = NoResult
    /\ log' = <<>>
    /\ config' = [loaded |-> FALSE, marketplace |-> Absent]
    /\ UNCHANGED <<files, dirs, clock, mp_guard, plugin_guards, pre, edits, held, last,
                   fault>>

LifeInputs == {<<"a">>, ExtRoot \o <<"c">>}
LifeNames == {"a", "c"}

LifeAdd ==
    \/ \E input \in LifeInputs :
          Len(hist) < MaxCalls /\ PlanAdd(<<input>>, "abort", FALSE)
    \/ ExecuteAdd(FALSE)
    \/ AddCopy
    \/ AddGuard
    \/ AddUpdate
    \/ AddValidate

LifeUpdate ==
    \/ \E n \in LifeNames : Len(hist) < MaxCalls /\ StartUpdate(<<n>>, "patch")
    \/ UpGuardMp
    \/ UpGuardPj
    \/ UpBump
    \/ UpEntries
    \/ UpValidate

LifeRemove ==
    \/ \E n \in LifeNames, delete_files \in BOOLEAN :
          Len(hist) < MaxCalls /\ StartRemove(<<n>>, delete_files, FALSE)
    \/ RmGuard
    \/ RmUpdate
    \/ RmValidate
    \/ RmDelete

LifePrune == \E apply \in BOOLEAN : Len(hist) < MaxCalls /\ Prune(apply)

LifeUser ==
    \/ \E v \in LifeVersions : CreatePlugin(v)
    \/ DeleteDir
    \/ LoadConfig

LifeNext ==
    \/ Scaffold
    \/ LifeAdd
    \/ LifeUpdate
    \/ LifeRemove
    \/ LifePrune
    \/ LifeUser
    \/ Return

SpecLife == LifeInit /\ [][LifeNext]_vars

(***************************************************************************)
(* Update on its own: the plugins a and b are registered, the name in the  *)
(* plugin.json of each is its registered name or another one, and the      *)
(* version of a is a release or a pre-release.                             *)
(***************************************************************************)
UpdNames == {"a", "b", "c"}
UpdVersions == {Ver(1, 2, 3), [Ver(1, 2, 3) EXCEPT !.pre = TRUE],
                Ver(MaxComponent, MaxComponent, MaxComponent)}

\* the version of the registry: a small one, or one whose patch is the
\* largest u64
UpdRegistryVersions == {Ver(0, 1, 0), Ver(0, 1, MaxComponent)}

UpdManifest(dir, n, v) == PjDoc("raw", n, TRUE, v, TRUE, <<"kw-" \o dir>>)

UpdInit ==
    /\ \E na \in UpdNames, nb \in UpdNames, va \in UpdVersions, vr \in UpdRegistryVersions :
          files = [q \in DOMAIN WorldFiles("reg", "none") |->
                     IF q = PluginJsonPath(PluginRoot \o <<"a">>) THEN UpdManifest("a", na, va)
                     ELSE IF q = PluginJsonPath(PluginRoot \o <<"b">>)
                     THEN UpdManifest("b", nb, Ver(0, 0, 9))
                     ELSE IF q = MarketplacePath
                     THEN [WorldFiles("reg", "none")[q] EXCEPT !.version = vr]
                     ELSE WorldFiles("reg", "none")[q]]
    /\ dirs = WorldDirs("reg", "none")
    /\ clock = 0
    /\ held = <<>>
    /\ last = NoGuardOp
    /\ config = load_marketplace_config(files, dirs)
    /\ Idle
    /\ pre = [files |-> files, dirs |-> dirs]
    /\ edits = 0
    /\ fault = "none"
    /\ hist = <<>>

UpdNext ==
    \/ \E names \in NameLists({"a", "b"}), bump_type \in AllBumpTypes :
          StartUpdate(names, bump_type)
    \/ UpGuardMp
    \/ UpGuardPj
    \/ UpBump
    \/ UpEntries
    \/ UpValidate

SpecUpdate == UpdInit /\ [][UpdNext]_vars

\* fs::remove_file of a backup is going to fail during the commit
CommitFails ==
    /\ fault = "none"
    /\ pc = "up_validate"
    /\ fault' = "commit"
    /\ UNCHANGED <<files, dirs, clock, held, last, pipelineVarsNoFault>>

UpdNextIO == UpdNext \/ CommitFails

SpecUpdateIO == UpdInit /\ [][UpdNextIO]_vars

(***************************************************************************)
(* Guards that share a file (SpecGuardShared): AtomicGuard::new takes no   *)
(* lock, so a second guard over a file can be acquired while the first is  *)
(* alive, within the same second or a later one.  A held guard remembers   *)
(* whether another guard with its backup path was acquired during its      *)
(* life.                                                                   *)
(***************************************************************************)
\* let guard = AtomicGuard::new(p)?, whatever guards are alive
HNewShared(p) ==
    /\ Len(held) < MaxHeld
    /\ LET g == GuardNew(files, p, clock)
           same(h) == g.backup_path # NoPath /\ h.guard.backup_path = g.backup_path
       IN
       /\ held' = Append([i \in 1..Len(held) |->
                             [held[i] EXCEPT !.shared = held[i].shared \/ same(held[i])]],
                         [guard |-> g, acquired |-> ReadFile(files, p),
                          shared |-> \E i \in 1..Len(held) : same(held[i])])
       /\ files' = GuardNewFiles(files, p, clock)
       /\ last' = GuardOp("new", g, ReadFile(files, p), files)
    /\ UNCHANGED <<dirs, clock, pipelineVars>>

SharedNext ==
    \/ HNewShared(MarketplacePath)
    \/ \E c \in HarnessContents : HWrite(MarketplacePath, c)
    \/ \E i \in 1..Len(held) : HCommit(i)
    \/ \E i \in 1..Len(held) : HDrop(i)
    \/ Tick

SpecGuardShared == GuardInit /\ [][SharedNext]_vars

(***************************************************************************)
(* Remove on its own: the entry a holds any of the source strings a        *)
(* registry file can give it, b is registered under the plugin root, /ext/c*)
(* is an external directory and plugins/ln is a symbolic link to it.       *)
(***************************************************************************)
RmSources ==
    {<<"a">>, <<>>, <<".">>, <<"a", "..">>, <<"a", "..", "..">>,
     <<".", "plugins">>, <<".", "plugins", "a">>, <<"..", "proj", "plugins", "a">>,
     <<"..", "ext", "c">>, PluginRoot \o <<"a">>, PluginRoot, ExtRoot \o <<"c">>,
     <<"ln">>}

RmInit ==
    /\ \E sa \in RmSources :
          files = [q \in DOMAIN WorldFiles("reg", "dir") |->
                     IF q = MarketplacePath
                     THEN MpDoc("raw", Ver(0, 1, 0),
                                <<Entry("a", sa, <<"old">>), Entry("b", <<"b">>, <<"old">>)>>)
                     ELSE WorldFiles("reg", "dir")[q]]
    /\ dirs = WorldDirs("reg", "dir")
    /\ clock = 0
    /\ held = <<>>
    /\ last = NoGuardOp
    /\ config = load_marketplace_config(files, dirs)
    /\ Idle
    /\ pre = [files |-> files, dirs |-> dirs]
    /\ edits = 0
    /\ fault = "none"
    /\ hist = <<>>

RmNext ==
    \/ \E names \in NameLists({"a", "b"}), delete_files \in BOOLEAN,
          allow_external_delete \in BOOLEAN :
          StartRemove(names, delete_files, allow_external_delete)
    \/ RmGuard
    \/ RmUpdate
    \/ RmValidate
    \/ RmDelete

SpecRemove == RmInit /\ [][RmNext]_vars

(***************************************************************************)
(* Two invocations of remove_plugins running concurrently on one registry  *)
(* (SpecRace).  Each process has its own snapshot, arguments, guard and    *)
(* result: pc, args, config, plan, idx, mp_guard and result are functions  *)
(* of the process here.  The disk and the clock are shared, nothing is     *)
(* locked, and a step of one process is one operation on the registry      *)
(* file.  The log is the order of the writes, commits and restores.        *)
(***************************************************************************)
Procs == {1, 2}
Other(p) == IF p = 1 THEN 2 ELSE 1
RaceNames == {<<"a">>, <<"b">>}

Set(f, p, v) == [f EXCEPT ![p] = v]

RaceInit ==
    /\ files = WorldFiles("reg", "none")
    /\ dirs = WorldDirs("reg", "none")
    /\ clock = 0
    /\ pc = [p \in Procs |-> "idle"]
    /\ args = [p \in Procs |-> [op |-> "none"]]
    /\ config = [p \in Procs |-> [loaded |-> FALSE, marketplace |-> Absent]]
    /\ plan = [p \in Procs |-> [targets |-> <<>>, marketplace |-> Absent]]
    /\ idx = [p \in Procs |-> 0]
    /\ mp_guard = [p \in Procs |-> <<>>]
    /\ result = [p \in Procs |-> NoResult]
    /\ log = <<>>
    /\ plugin_guards = <<>>
    /\ held = <<>>
    /\ last = NoGuardOp
    /\ pre = [files |-> files, dirs |-> dirs]
    /\ edits = 0
    /\ fault = "none"
    /\ hist = <<>>

raceFrame == <<held, last, plugin_guards, pre, edits, fault, hist>>

\* the process returns an error: its guard is dropped
RaceFail(p, e) ==
    /\ files' = DropAll(files, mp_guard[p])
    /\ log' = Append(log, <<p, IF mp_guard[p] # <<>> /\ mp_guard[p][1].backup_path # NoPath
                                  /\ Exists(files, mp_guard[p][1].backup_path)
                               THEN "restore" ELSE "drop">>)
    /\ mp_guard' = Set(mp_guard, p, <<>>)
    /\ result' = Set(result, p, e)
    /\ pc' = Set(pc, p, "done")

\* load_marketplace_config of the command: the snapshot of the process
RaceLoad(p) ==
    /\ pc[p] = "idle"
    /\ config' = Set(config, p, load_marketplace_config(files, dirs))
    /\ IF LoadOk(files, dirs)
       THEN pc' = Set(pc, p, "loaded") /\ UNCHANGED result
       ELSE /\ pc' = Set(pc, p, "done")
            /\ result' = Set(result, p, Err("Other", "load failed", "load"))
    /\ UNCHANGED <<files, dirs, clock, args, plan, idx, mp_guard, log, raceFrame>>

\* remove_plugins up to the acquisition of the guard
RaceStart(p, names, delete_files) ==
    /\ pc[p] = "loaded"
    /\ args' = Set(args, p, [op |-> "remove", names |-> names,
                             delete_files |-> delete_files,
                             allow_external_delete |-> FALSE])
    /\ LET t == DeleteTargets(dirs, config[p], names, FALSE, 1, <<>>) IN
       IF FirstMissing(config[p], names) # 0
       THEN /\ pc' = Set(pc, p, "done")
            /\ result' = Set(result, p, Err("PluginNotFound",
                                            names[FirstMissing(config[p], names)], "resolve"))
            /\ UNCHANGED plan
       ELSE IF delete_files /\ ~IsDir(dirs, PluginRoot)
       THEN /\ pc' = Set(pc, p, "done")
            /\ result' = Set(result, p, Err("Io", "canonicalize", "authorize"))
            /\ UNCHANGED plan
       ELSE IF delete_files /\ ~t.ok
       THEN /\ pc' = Set(pc, p, "done")
            /\ result' = Set(result, p, t.err)
            /\ UNCHANGED plan
       ELSE /\ pc' = Set(pc, p, "rm_guard")
            /\ plan' = Set(plan, p, [plan[p] EXCEPT
                                        !.targets = IF delete_files THEN t.targets ELSE <<>>])
            /\ UNCHANGED result
    /\ UNCHANGED <<files, dirs, clock, config, idx, mp_guard, log, raceFrame>>

\* AtomicGuard::new(&config.marketplace_path): no lock, only a backup copy
RaceGuard(p) ==
    /\ pc[p] = "rm_guard"
    /\ mp_guard' = Set(mp_guard, p, <<GuardNew(files, MarketplacePath, clock)>>)
    /\ files' = GuardNewFiles(files, MarketplacePath, clock)
    /\ pc' = Set(pc, p, "rm_read")
    /\ UNCHANGED <<dirs, clock, config, args, plan, idx, result, log, raceFrame>>

\* a removal that writes back what it read
RaceDocument_Keep(content, names) ==
    [kind |-> "mp", version |-> bump_patch(content.version),
     plugins |-> content.plugins, removed |-> names]

\* remove_plugins: the document to write, from the one that was read
RaceDocument(content, names) ==
    LET r == RetainLoop(content.plugins, names, 1, <<>>) IN
    [kind |-> "mp", version |-> bump_patch(content.version),
     plugins |-> r.plugins, removed |-> r.removed]

\* fs::read_to_string and serde_json::from_str, then the changes in memory
RaceRead(p) ==
    /\ pc[p] = "rm_read"
    /\ LET content == ReadRegistry(files, config[p]) IN
       IF content.kind = "absent"
       THEN RaceFail(p, Err("Io", "read marketplace.json", "update")) /\ UNCHANGED plan
       ELSE IF content.kind # "mp"
       THEN RaceFail(p, Err("Json", "marketplace.json", "update")) /\ UNCHANGED plan
       ELSE IF ~content.version.ok
       THEN RaceFail(p, Err("Semver", "version", "update")) /\ UNCHANGED plan
       ELSE /\ plan' = Set(plan, p, [plan[p] EXCEPT
                                        !.marketplace = RaceDocument(content, args[p].names)])
            /\ pc' = Set(pc, p, "rm_write")
            /\ UNCHANGED <<files, mp_guard, result, log>>
    /\ UNCHANGED <<dirs, clock, config, args, idx, raceFrame>>

\* fs::write of the document
RaceWrite(p) ==
    /\ pc[p] = "rm_write"
    /\ files' = WriteMarketplace(files, plan[p].marketplace.version,
                                 plan[p].marketplace.plugins)
    /\ result' = Set(result, p, [NoResult EXCEPT !.names = plan[p].marketplace.removed])
    /\ log' = Append(log, <<p, "write">>)
    /\ pc' = Set(pc, p, "rm_validate")
    /\ UNCHANGED <<dirs, clock, config, args, plan, idx, mp_guard, raceFrame>>

\* reload and validate what is on disk, then drop the guard or commit it
RaceValidate(p) ==
    /\ pc[p] = "rm_validate"
    /\ IF ~LoadOk(files, dirs)
       THEN RaceFail(p, Err("Other", "reload failed", "validate"))
       ELSE IF has_errors(validate_marketplace(dirs, files[MarketplacePath]))
       THEN RaceFail(p, Err("AtomicRollback", "Validation failed after remove", "validate"))
       ELSE /\ files' = GuardCommitFiles(files, mp_guard[p][1])
            /\ mp_guard' = Set(mp_guard, p, <<>>)
            /\ log' = Append(log, <<p, "commit">>)
            /\ IF plan[p].targets = <<>>
               THEN /\ pc' = Set(pc, p, "done")
                    /\ result' = Set(result, p, Ok(result[p].names, <<>>))
               ELSE /\ pc' = Set(pc, p, "rm_delete")
                    /\ UNCHANGED result
    /\ idx' = Set(idx, p, 1)
    /\ UNCHANGED <<dirs, clock, config, args, plan, raceFrame>>

\* the directories are deleted after the commit
RaceDelete(p) ==
    /\ pc[p] = "rm_delete"
    /\ LET path == plan[p].targets[idx[p]].path IN
       IF IsDir(dirs, path)
       THEN /\ dirs' = RemoveDirAllDirs(dirs, path)
            /\ files' = RemoveDirAllFiles(files, path)
       ELSE UNCHANGED <<dirs, files>>
    /\ IF idx[p] = Len(plan[p].targets)
       THEN /\ pc' = Set(pc, p, "done")
            /\ result' = Set(result, p, Ok(result[p].names, <<>>))
       ELSE UNCHANGED <<pc, result>>
    /\ idx' = Set(idx, p, idx[p] + 1)
    /\ UNCHANGED <<clock, config, args, plan, mp_guard, log, raceFrame>>

RaceNext ==
    \/ \E p \in Procs : RaceLoad(p)
    \/ \E p \in Procs, names \in RaceNames, delete_files \in BOOLEAN :
          RaceStart(p, names, delete_files)
    \/ \E p \in Procs : RaceGuard(p)
    \/ \E p \in Procs : RaceRead(p)
    \/ \E p \in Procs : RaceWrite(p)
    \/ \E p \in Procs : RaceValidate(p)
    \/ \E p \in Procs : RaceDelete(p)
    \/ Tick

SpecRace == RaceInit /\ [][RaceNext]_vars

(***************************************************************************)
(* Properties of the guard (SpecGuard).                                    *)
(***************************************************************************)
LastPath == last.guard.original_path

\* C1: a guard acquired over an existing file and dropped without commit
\* leaves the file with exactly the content it had when the guard was
\* acquired, whatever was written to it in between, and no backup file.
C1_DropRestores ==
    (last.op = "drop" /\ last.existed) =>
        /\ ReadFile(files, LastPath) = last.acquired
        /\ ~Exists(files, last.guard.backup_path)

\* the file was rewritten between the acquisition and the drop
C1_Witness ==
    /\ last.op = "drop"
    /\ last.existed
    /\ ReadFile(last.before, LastPath) # last.acquired
    /\ ReadFile(files, LastPath) = last.acquired

\* C2: a guard acquired over an existing file and committed leaves the
\* file as the writes made it (the drop that follows restores nothing) and
\* leaves no backup file.
C2_CommitKeeps ==
    (last.op = "commit" /\ last.existed) =>
        /\ ReadFile(files, LastPath) = ReadFile(last.before, LastPath)
        /\ ~Exists(files, last.guard.backup_path)

\* the file was rewritten between the acquisition and the commit
C2_Witness ==
    /\ last.op = "commit"
    /\ last.existed
    /\ Exists(last.before, last.guard.backup_path)
    /\ ReadFile(files, LastPath) # last.acquired

\* C3: a guard over a path that does not exist has no backup, and its
\* acquisition, its commit and its drop leave every file as it was: the
\* path is not created and no backup appears.
C3_NoFileNoOp ==
    (last.op \in {"new", "commit", "drop"} /\ ~last.existed) =>
        /\ last.guard.backup_path = NoPath
        /\ files = last.before
        /\ dirs = WorldDirs("none", "none")

\* such a guard was dropped while its path still does not exist
C3_Witness ==
    /\ last.op = "drop"
    /\ ~last.existed
    /\ ~Exists(files, LastPath)

(***************************************************************************)
(* Properties of the pipelines (Spec, SpecIO).                             *)
(***************************************************************************)
Returned(op) == pc = "done" /\ args.op = op

Count(q, x) == Cardinality({i \in 1..Len(q) : q[i] = x})

\* the registry file as it was when the invocation was entered
RegistryUntouched == ReadFile(files, MarketplacePath) = ReadFile(pre.files, MarketplacePath)

\* C4: execute_add with dry_run = true changes no file and no directory
\* (nothing copied, no guard, no backup, no write) and returns, in plan
\* order, the name of every action that is not Skip, which for a Rename
\* action is the generated name.
C4_DryRun ==
    (Returned("add") /\ args.dry_run) =>
        /\ files = pre.files
        /\ dirs = pre.dirs
        /\ log = <<>>
        /\ result.status = "ok"
        /\ LET eff == SelectSeq(plan, LAMBDA a : a.conflict # "Skip") IN
           /\ Len(result.names) = Len(eff)
           /\ \A i \in 1..Len(eff) :
                 result.names[i] = IF eff[i].conflict = "Rename" THEN eff[i].new_name
                                   ELSE eff[i].plugin_name

\* a dry run of a plan that would copy an external plugin under a generated name
C4_Witness ==
    /\ Returned("add")
    /\ args.dry_run
    /\ \E i \in 1..Len(plan) :
          /\ plan[i].conflict = "Rename"
          /\ plan[i].is_external
          /\ plan[i].new_name # plan[i].plugin_name
          /\ \E k \in 1..Len(result.names) : result.names[k] = plan[i].new_name

\* what input i of an Add resolves to, on the disk the call started from
InputPath(i) == resolve_plugin_input(pre.dirs, config, args.names[i])
InputManifest(i) ==
    IF InputPath(i) = NoPath THEN Absent ELSE ReadFile(pre.files, PluginJsonPath(InputPath(i)))
InputNamed(i) == InputManifest(i).kind = "pj" /\ InputManifest(i).name # NoStr
InputValid(i) == InputNamed(i) /\ ~has_errors(validate_plugin(pre.files, pre.dirs, InputPath(i)))

\* input i resolves to a plugin whose name is registered
InputConflicts(i) == InputNamed(i) /\ InputManifest(i).name \in ExistingNames(config)

\* planning gets past input j without returning
InputPassed(j) ==
    \/ InputPath(j) = NoPath
    \/ InputNamed(j) /\ (~InputValid(j) \/ ~InputConflicts(j))

\* C5 as stated: under abort, when an input resolves to a plugin whose
\* name is registered, the Add fails with the already-exists error naming
\* such a plugin, nothing is executed and no file or directory changes.
C5_AsStated ==
    (/\ Returned("add") /\ args.strategy = "abort"
     /\ \E i \in 1..Len(args.names) : InputConflicts(i))
    => /\ result.status = "err"
       /\ result.kind = "PluginAlreadyExists"
       /\ \E i \in 1..Len(args.names) :
             InputConflicts(i) /\ result.detail = InputManifest(i).name
       /\ files = pre.files /\ dirs = pre.dirs /\ log = <<>>

\* C5: under abort, an input that resolves to a plugin whose name is
\* registered makes the Add fail with nothing executed and no file or
\* directory changed; the error is the already-exists error naming the
\* plugin of the first input, in batch order, that passes plugin validation
\* and has a registered name, provided no earlier input has an unreadable
\* or nameless plugin.json.
C5_Abort ==
    (Returned("add") /\ args.strategy = "abort") =>
        \A i \in 1..Len(args.names) :
            /\ InputConflicts(i) =>
                  /\ result.status = "err"
                  /\ files = pre.files /\ dirs = pre.dirs /\ log = <<>>
            /\ (InputConflicts(i) /\ InputValid(i) /\ \A j \in 1..(i - 1) : InputPassed(j)) =>
                  /\ result.kind = "PluginAlreadyExists"
                  /\ result.detail = InputManifest(i).name

\* a batch whose first input is a new external plugin and whose second
\* input is registered: the first is not copied
C5_Witness ==
    /\ Returned("add")
    /\ args.strategy = "abort"
    /\ Len(args.names) = 2
    /\ InputValid(1) /\ ~InputConflicts(1) /\ Head(InputPath(1)) = "/"
    /\ ~IsPrefix(PluginRoot, InputPath(1))
    /\ InputValid(2) /\ InputConflicts(2)
    /\ result.kind = "PluginAlreadyExists"

\* the guards the invocation holds
LiveGuards == SeqToSet(mp_guard \o plugin_guards)
Guarded(p) == \E g \in LiveGuards : g.original_path = p /\ ~g.committed

\* C6 (state part): when execute_add or remove_plugins returns an error
\* after it acquired the guard over the registry, the registry file has
\* the content it had when the call was entered.
C6_Restored ==
    (pc = "done" /\ args.op \in {"add", "remove"} /\ result.status = "err"
        /\ Count(log, "guard") > 0) => RegistryUntouched

\* C6 (step part): a final validation that reports an error on the
\* reloaded registry is returned as the atomic-rollback error.
C6_ValidationStep ==
    (/\ pc \in {"add_validate", "rm_validate"}
     /\ pc' # pc
     /\ fault # "reload"
     /\ LoadOk(files, dirs)
     /\ has_errors(validate_marketplace(dirs, files[MarketplacePath])))
    => (result'.status = "err" /\ result'.kind = "AtomicRollback" /\ pc' = "done")

C6_WitnessWrite ==
    /\ Returned("remove")
    /\ fault = "write_partial"
    /\ result.kind = "Io"
    /\ RegistryUntouched

\* C7: when update_plugins fails because a plugin does not re-validate or
\* because the final validation of the registry reports an error, the
\* registry file and the plugin.json of every targeted plugin have the
\* content they had when the call was entered, and no backup is left.
C7_UpdateRollback ==
    (Returned("update") /\ result.kind = "AtomicRollback") =>
        /\ RegistryUntouched
        /\ \A i \in 1..Len(plan) :
              ReadFile(files, PluginJsonPath(plan[i].path))
                  = ReadFile(pre.files, PluginJsonPath(plan[i].path))
        /\ files = pre.files

\* two plugins were bumped on disk, the first one valid, and the
\* re-validation of the second one failed
C7_Witness ==
    /\ Returned("update")
    /\ result.kind = "AtomicRollback"
    /\ result.at = "entries"
    /\ args.bump_type = "patch"
    /\ Len(plan) = 2
    /\ plan[1].path # plan[2].path
    /\ ~has_errors(validate_plugin(pre.files, pre.dirs, plan[1].path))
    /\ Count(log, "write") = 2

\* the final validation of an update failed after a bump was written
C7_WitnessFinal ==
    /\ Returned("update")
    /\ result.kind = "AtomicRollback"
    /\ result.at = "validate"
    /\ args.bump_type = "patch"
    /\ Count(log, "write") >= 2

\* while the invocation runs, every file it found on disk and has changed
\* is under a live guard
ChangedAreGuarded(paths) ==
    pc \notin {"idle", "done", "rm_delete"} =>
        \A p \in paths : ReadFile(files, p) # pre.files[p] => Guarded(p)

\* the acquisition of a guard failed
GuardFailed == pc = "done" /\ result.status = "err" /\ result.at = "guard"

\* C8 as stated: in Add, Remove and Update every file changed is under a
\* guard acquired before the change, and a failed guard acquisition leaves
\* every file and every directory as it was.
C8_AsStated ==
    /\ ChangedAreGuarded(DOMAIN pre.files)
    /\ GuardFailed => (files = pre.files /\ dirs = pre.dirs)

\* C8: in Remove and Update every file changed is under a guard acquired
\* before the change and a failed guard acquisition leaves every file and
\* directory as it was; in Add this holds of the registry file only: the
\* guard is acquired before the registry is written and its failure
\* leaves the registry untouched, but directories may already have been
\* copied into the plugin root.
C8_GuardsFirst ==
    /\ ChangedAreGuarded(IF args.op = "add" THEN {MarketplacePath} ELSE DOMAIN pre.files)
    /\ GuardFailed =>
          /\ RegistryUntouched
          /\ Count(log, "write") = 0
          /\ args.op \in {"remove", "update"} => (files = pre.files /\ dirs = pre.dirs)
          /\ args.op = "add" =>
                \A q \in DOMAIN pre.files :
                    ~IsPrefix(PluginRoot, q) => ReadFile(files, q) = pre.files[q]

\* the guard of the second plugin.json of an update could not be acquired
\* after two guards had been
C8_Witness ==
    /\ GuardFailed
    /\ args.op = "update"
    /\ Count(log, "guard") = 2
    /\ files = pre.files

\* the registry guard of an Add could not be acquired after a copy
C8_WitnessAdd ==
    /\ GuardFailed
    /\ args.op = "add"
    /\ Count(log, "copy") > 0
    /\ dirs # pre.dirs

\* what the entry called n in the snapshot resolves to
SnapshotDir(n) ==
    Canonicalize(resolve_source(
        config.marketplace.plugins[FindEntry(config.marketplace.plugins, n)].source))

AllRegistered == \A i \in 1..Len(args.names) : HasName(config.marketplace.plugins, args.names[i])

\* name n of the call is a delete target outside the plugin root
ExternalTarget(n) ==
    /\ SnapshotDir(n) \in pre.dirs
    /\ ~IsPrefix(Canonicalize(PluginRoot), SnapshotDir(n))

\* C9: remove_plugins with deletion requested and no override, when one
\* of its targets (the directories of the names of the call, all of them
\* registered) lies outside the plugin root, returns the refusal error
\* without having acquired a guard: no file and no directory has changed,
\* for any name of the call.
C9_Refused ==
    (/\ Returned("remove")
     /\ args.delete_files /\ ~args.allow_external_delete
     /\ AllRegistered
     /\ \E i \in 1..Len(args.names) : ExternalTarget(args.names[i]))
    => /\ result.status = "err"
       /\ result.kind = "Other"
       /\ result.detail = "Refusing to delete: path is outside pluginRoot"
       /\ log = <<>>
       /\ files = pre.files
       /\ dirs = pre.dirs

\* an internal plugin and an external one were named together
C9_Witness ==
    /\ Returned("remove")
    /\ args.delete_files /\ ~args.allow_external_delete
    /\ Len(args.names) = 2
    /\ AllRegistered
    /\ ~ExternalTarget(args.names[1]) /\ SnapshotDir(args.names[1]) \in pre.dirs
    /\ ExternalTarget(args.names[2])
    /\ result.status = "err"

\* the entries of the registry on disk
DiskEntries(fs) ==
    IF ReadFile(fs, MarketplacePath).kind = "mp" THEN fs[MarketplacePath].plugins ELSE <<>>

EntryDir(e) == Canonicalize(resolve_source(e.source))

\* C10: a successful remove_plugins with deletion requested leaves no
\* entry with a name of the call in the registry, no directory of such an
\* entry on disk, and every directory of an entry that was not named
\* still on disk.
C10_RemoveDeletes ==
    (Returned("remove") /\ args.delete_files /\ result.status = "ok") =>
        LET named == SeqToSet(args.names)
            before == SeqToSet(DiskEntries(pre.files))
        IN
        /\ \A e \in SeqToSet(DiskEntries(files)) : e.name \notin named
        /\ \A e \in before : e.name \in named => EntryDir(e) \notin dirs
        /\ \A e \in before :
              (e.name \notin named /\ EntryDir(e) \in pre.dirs) => EntryDir(e) \in dirs

\* the registry on disk is the one remove_plugins wrote and committed:
\* pretty-printed, patch version bumped, no entry with a name of the call
RemoveCommitted ==
    LET now == ReadFile(files, MarketplacePath)
        was == ReadFile(pre.files, MarketplacePath)
    IN /\ now.kind = "mp" /\ now.fmt = "pretty"
       /\ now.version = [was.version EXCEPT !.patch = @ + 1, !.pre = FALSE]
       /\ \A e \in SeqToSet(now.plugins) : e.name \notin SeqToSet(args.names)
       /\ DOMAIN files \subseteq DOMAIN pre.files

\* C11: remove_plugins deletes directories only after the commit of the
\* registry guard; a call that returns an error has deleted no directory;
\* a deletion that fails after the commit leaves the call successful, with
\* one warning naming that plugin, and the registry change committed.
C11_DeleteAfterCommit ==
    args.op = "remove" =>
        /\ \A j \in 1..Len(log) :
              log[j] \in {"delete", "delete_failed"} =>
                  \E i \in 1..(j - 1) : log[i] = "commit"
        /\ (pc = "done" /\ result.status = "err") =>
              (dirs = pre.dirs /\ Count(log, "delete") = 0)
        /\ (pc = "done" /\ Count(log, "delete_failed") > 0) =>
              /\ result.status = "ok"
              /\ Len(result.warnings) = Count(log, "delete_failed")
              /\ \A k \in 1..Len(result.warnings) :
                    \E t \in 1..Len(plan) : plan[t].name = result.warnings[k]
              /\ RemoveCommitted

\* of two directories to delete the first could not be deleted, the second was
C11_Witness ==
    /\ Returned("remove")
    /\ Len(plan) = 2
    /\ plan[1].path # plan[2].path
    /\ plan[1].path \in dirs /\ plan[2].path \notin dirs
    /\ log = <<"guard", "write", "commit", "delete_failed", "delete">>
    /\ result.status = "ok"
    /\ Len(result.warnings) = 1

\* the names of the call that the snapshot does not hold
MissingNames == {i \in 1..Len(args.names) : ~HasName(config.marketplace.plugins, args.names[i])}

\* C12: when a name passed to remove_plugins or update_plugins is not a
\* registered entry, the call returns the not-found error for the first
\* such name and has changed nothing: no guard acquired, no file written,
\* no directory deleted, whatever the other names of the call are.
C12_NotFound ==
    (pc = "done" /\ args.op \in {"remove", "update"} /\ MissingNames # {}) =>
        /\ result.status = "err"
        /\ result.kind = "PluginNotFound"
        /\ \E i \in MissingNames :
              /\ result.detail = args.names[i]
              /\ \A j \in MissingNames : i <= j
        /\ log = <<>>
        /\ files = pre.files
        /\ dirs = pre.dirs

\* a registered plugin was named, with deletion or a bump requested,
\* before a name that is not registered
C12_Witness ==
    /\ pc = "done"
    /\ args.op \in {"remove", "update"}
    /\ Len(args.names) = 2
    /\ MissingNames = {2}
    /\ IsDir(pre.dirs, SnapshotDir(args.names[1]))
    /\ (args.op = "remove" => args.delete_files)
    /\ (args.op = "update" => args.bump_type = "patch")
    /\ result.kind = "PluginNotFound"

\* update_plugins returned one of its two rename-collision errors
CollisionRaised ==
    /\ Returned("update")
    /\ result.status = "err"
    /\ result.detail \in {"would both be renamed", "conflicts with an existing plugin"}

\* C13: when update_plugins raises a rename collision (two updates of the
\* batch with the same new name, or a new name held by an entry outside
\* the batch), the call has written no plugin.json and no registry file,
\* with or without a version bump.
C13_CollisionBeforeWrite == CollisionRaised => Count(log, "write") = 0

\* without a bump the collision is raised before any write
C13_NoBumpNoWrite ==
    (CollisionRaised /\ args.bump_type = "none") => (log = <<"guard">> /\ files = pre.files)

\* C14: for a name that is among the existing names the rename resolution
\* returns name-k for the smallest k >= 2 such that name-k is not an
\* existing name (name-1 is never returned, gaps are filled); a name that
\* is not among the existing names is returned as it is.
C14_UniqueName ==
    (pc = "done" /\ args.op = "rename") =>
        LET out == result.names[1] IN
        IF args.base \notin args.existing THEN out = args.base
        ELSE \E k \in 2..(MaxSuffix + 1) :
                /\ out = Suffixed(args.base, k)
                /\ out \notin args.existing
                /\ \A j \in 2..(k - 1) : Suffixed(args.base, j) \in args.existing

\* name-1 is free and name-3 is taken, and name-2 is returned
C14_Witness ==
    /\ pc = "done"
    /\ args.op = "rename"
    /\ args.base = "foo"
    /\ {"foo", "foo-3"} \subseteq args.existing
    /\ "foo-1" \notin args.existing
    /\ result.names = <<"foo-2">>

(***************************************************************************)
(* Properties of a project over several commands (SpecLife).               *)
(***************************************************************************)
\* the command in progress has returned Ok and is the k-th of the project
DoneOk(k, op) ==
    /\ pc = "done"
    /\ Len(hist) = k - 1
    /\ args.op = op
    /\ result.status = "ok"

\* the k-th command of the project was op and it returned Ok
WasOk(k, op) ==
    /\ Len(hist) >= k
    /\ hist[k].args.op = op
    /\ hist[k].result.status = "ok"

ADir == PluginRoot \o <<"a">>

AddsA(a) == a.op = "add" /\ a.names = <<<<"a">>>>
UpdatesA(a) == a.op = "update" /\ a.names = <<"a">> /\ a.bump_type = "patch"
RemovesA(a) == a.op = "remove" /\ a.names = <<"a">> /\ a.delete_files

\* the commands so far are the first k of: init, add a, update a --patch
LifePrefix(k) ==
    /\ edits = 0
    /\ k >= 1 => WasOk(1, "init")
    /\ k >= 2 => WasOk(2, "add") /\ AddsA(hist[2].args)
    /\ k >= 3 => WasOk(3, "update") /\ UpdatesA(hist[3].args)

\* C15: init leaves a registry at version 0.1.0 with no entry; adding the
\* valid internal plugin a then leaves exactly one entry, with the keywords
\* of a as tags, and the registry at 0.1.1; update --patch then makes the
\* version x.y.z of a's plugin.json x.y.(z+1) and the registry 0.1.2; remove
\* with directory deletion then leaves no entry and no directory of a.
C15_Lifecycle ==
    LET mp == files[MarketplacePath] IN
    /\ DoneOk(1, "init") /\ LifePrefix(0)
       => mp.kind = "mp" /\ mp.version = Ver(0, 1, 0) /\ mp.plugins = <<>>
    /\ DoneOk(2, "add") /\ AddsA(args) /\ LifePrefix(1)
       => /\ Len(mp.plugins) = 1
          /\ mp.plugins[1].name = "a"
          /\ mp.plugins[1].tags = files[PluginJsonPath(ADir)].keywords
          /\ mp.version = Ver(0, 1, 1)
    /\ DoneOk(3, "update") /\ UpdatesA(args) /\ LifePrefix(2)
       => LET old == pre.files[PluginJsonPath(ADir)].version
              new == files[PluginJsonPath(ADir)].version
          IN /\ new.ok
             /\ new.major = old.major
             /\ new.minor = old.minor
             /\ new.patch = old.patch + 1
             /\ mp.version = Ver(0, 1, 2)
    /\ DoneOk(4, "remove") /\ RemovesA(args) /\ LifePrefix(3)
       => /\ mp.plugins = <<>>
          /\ \A d \in dirs : ~IsPrefix(ADir, d)
          /\ \A f \in DOMAIN files : ~IsPrefix(ADir, f)

\* the four commands ran in that order and the last one has returned
C15_Witness ==
    /\ DoneOk(4, "remove") /\ RemovesA(args) /\ LifePrefix(3)
    /\ hist[3].pre.files[PluginJsonPath(ADir)].version = Ver(0, 2, 9)
    /\ "delete" \in {log[i] : i \in 1..Len(log)}
(***************************************************************************)
(* The validation gate (SpecIO).                                           *)
(***************************************************************************)
\* the step releases the guard over the registry without an error return
CommitStep ==
    /\ mp_guard # <<>>
    /\ mp_guard' = <<>>
    /\ result'.status # "err"

\* the registry on disk loads and its validation reports no error
GatePassed ==
    /\ fault # "reload"
    /\ LoadOk(files, dirs)
    /\ ~has_errors(validate_marketplace(dirs, files[MarketplacePath]))

\* C16: in Add, Remove and Update the guard over the registry is committed
\* only by a step that found the registry this invocation wrote loadable
\* from disk and free of validation errors; the committed registry is the
\* one that was validated, and no invocation holds a guard at its return
\* without having failed or passed that gate.
C16_GateStep ==
    CommitStep =>
        /\ pc \in {"add_validate", "rm_validate", "up_validate"}
        /\ GatePassed
        /\ "write" \in {log[i] : i \in 1..Len(log)}
        /\ Last(log) = "write"
        /\ files'[MarketplacePath] = files[MarketplacePath]
        /\ ~Exists(files', mp_guard[1].backup_path)

C16_NeverBypassed ==
    /\ [][C16_GateStep]_vars
    /\ [](pc = "done" /\ result.status = "ok"
            /\ files[MarketplacePath] # pre.files[MarketplacePath]
          => "commit" \in {log[i] : i \in 1..Len(log)} /\ mp_guard = <<>>)

\* an update whose second write was validated and committed
C16_Witness ==
    /\ pc = "done"
    /\ args.op = "update"
    /\ result.status = "ok"
    /\ log = <<"guard", "guard", "write", "write", "commit">>
    /\ files[MarketplacePath] # pre.files[MarketplacePath]
(***************************************************************************)
(* An Add rolled back after its copies (Spec).                             *)
(***************************************************************************)
\* the Add in progress copied external plugins and its final validation failed
AddRolledBackAfterCopy ==
    /\ pc = "done"
    /\ args.op = "add"
    /\ result.kind = "AtomicRollback"
    /\ "copy" \in {log[i] : i \in 1..Len(log)}

\* the directories the Add in progress copied external plugins to
CopiedDirs ==
    {CopyTarget(EffectiveActions(plan)[i]) :
        i \in {j \in 1..Len(EffectiveActions(plan)) : NeedsCopy(EffectiveActions(plan)[j])}}

\* what a prune with apply, run on the disk as it is, leaves of the directories
AfterPrune ==
    LET cfg == load_marketplace_config(files, dirs)
        orphaned == CHOOSE q \in Orders(find_orphaned_dirs(dirs, cfg.marketplace)) : TRUE
    IN RemoveAllDirs(dirs, orphaned, 1)

\* C17: after an Add that copied an external plugin under the plugin root is
\* rolled back by its final validation, the registry holds its bytes of
\* before the Add, every copied directory is still on disk and referenced by
\* no entry, find_orphaned_dirs reports it and a prune with apply removes it.
C17_CopiesOrphaned ==
    AddRolledBackAfterCopy =>
        /\ files[MarketplacePath] = pre.files[MarketplacePath]
        /\ \A t \in CopiedDirs :
              /\ t \in dirs
              /\ t \in find_orphaned_dirs(dirs, files[MarketplacePath])
              /\ t \notin AfterPrune

\* the same, for an Add none of whose actions replaces an entry
C17_NoReplace ==
    AddRolledBackAfterCopy
    /\ (\A i \in 1..Len(plan) : plan[i].conflict # "Replace")
    => /\ files[MarketplacePath] = pre.files[MarketplacePath]
       /\ \A t \in CopiedDirs :
              /\ t \in dirs
              /\ t \in find_orphaned_dirs(dirs, files[MarketplacePath])
              /\ t \notin AfterPrune
(***************************************************************************)
(* The teardown whose restore fails (SpecGuardIO).                         *)
(***************************************************************************)
\* C18: when an uncommitted guard is torn down and the copy of the backup
\* over the original fails, the backup file is still on disk afterwards.
C18_BackupKept ==
    last.op = "drop_copy_failed" => Exists(files, last.guard.backup_path)

(***************************************************************************)
(* Add under replace (Spec).                                               *)
(***************************************************************************)
\* the Add in progress ran under replace and was committed
ReplaceCommitted ==
    /\ pc = "done"
    /\ args.op = "add"
    /\ args.strategy = "replace"
    /\ result.status = "ok"
    /\ "commit" \in {log[i] : i \in 1..Len(log)}

Replacing == {i \in 1..Len(plan) : plan[i].conflict = "Replace"}

\* the files and directories under dst are the image of those under src
SameTree(src, dst) ==
    /\ {d \in dirs : IsPrefix(dst, d)} = {Rebase(d, src, dst) : d \in {e \in dirs : IsPrefix(src, e)}}
    /\ {f \in DOMAIN files : IsPrefix(dst, f)}
         = {Rebase(f, src, dst) : f \in {g \in DOMAIN files : IsPrefix(src, g)}}
    /\ \A f \in {g \in DOMAIN files : IsPrefix(src, g)} : files[Rebase(f, src, dst)] = files[f]

\* the last action of the plan that adds a plugin of the name of action i
LastOfName(i) ==
    CHOOSE j \in Replacing :
        /\ plan[j].plugin_name = plan[i].plugin_name
        /\ \A k \in Replacing : plan[k].plugin_name = plan[i].plugin_name => k <= j

\* C19: after a committed Add under replace, for every action that replaces
\* an entry the registry holds exactly one entry with the conflicting name,
\* whose source is that of the added plugin and whose tags are the keywords
\* of the plugin.json of the added plugin as it is on disk, not the old
\* tags (the added plugin being the last one of that name when the batch
\* holds several); when the plugin was copied from outside the plugin root,
\* the target directory holds the copied tree and nothing of the old one.
C19_Replace ==
    ReplaceCommitted =>
        \A i \in Replacing :
            LET a == plan[LastOfName(i)]
                mp == files[MarketplacePath]
                hits == {k \in 1..Len(mp.plugins) : mp.plugins[k].name = a.plugin_name}
            IN /\ Cardinality(hits) = 1
               /\ \A k \in hits :
                     /\ mp.plugins[k].source = a.source
                     /\ mp.plugins[k].tags = files[PluginJsonPath(a.plugin_path)].keywords
               /\ NeedsCopy(plan[i]) => SameTree(plan[i].plugin_path, CopyTarget(plan[i]))

\* an external plugin replaced the registered plugin a, whose directory held
\* a file the external tree does not have
C19_Witness ==
    /\ ReplaceCommitted
    /\ Len(plan) = 1
    /\ NeedsCopy(plan[1])
    /\ plan[1].conflict = "Replace"
    /\ Exists(pre.files, ExtraFile)
    /\ ~Exists(files, ExtraFile)
    /\ pre.files[MarketplacePath].plugins[1].tags = <<"old">>
    /\ files[MarketplacePath].plugins[Len(files[MarketplacePath].plugins)].tags = <<"kw-a">>

(***************************************************************************)
(* Add under rename (Spec).                                                *)
(***************************************************************************)
\* the Add in progress has returned; it ran for real under rename, on a
\* registry that was valid, for one plugin, which its plan renames
RenameReturned ==
    /\ pc = "done"
    /\ args.op = "add"
    /\ Len(args.names) = 1
    /\ args.strategy = "rename"
    /\ ~args.dry_run
    /\ edits = 0
    /\ ~has_errors(validate_marketplace(pre.dirs, pre.files[MarketplacePath]))
    /\ \E i \in 1..Len(plan) : plan[i].conflict = "Rename"

\* action a was registered under its generated name, which is also its
\* source and names a directory under the plugin root; the entry of the
\* original name is as it was
RenamedEntry(a) ==
    LET old == pre.files[MarketplacePath].plugins
        new == files[MarketplacePath].plugins
    IN /\ \E k \in 1..Len(new) :
             /\ new[k].name = a.new_name
             /\ new[k].source = <<a.new_name>>
       /\ IsDir(dirs, resolve_source(<<a.new_name>>))
       /\ IsPrefix(PluginRoot, Canonicalize(resolve_source(<<a.new_name>>)))
       /\ \A k \in 1..Len(old) :
             old[k].name = a.plugin_name => k <= Len(new) /\ new[k] = old[k]

\* C20: an Add under rename of a valid plugin whose name is registered,
\* internal or external, commits an entry whose name and source are the
\* generated name, the source names a directory under the plugin root, and
\* the entry of the original name is unchanged.
C20_RenameCommits ==
    RenameReturned =>
        /\ result.status = "ok"
        /\ \A i \in 1..Len(plan) : plan[i].conflict = "Rename" => RenamedEntry(plan[i])

\* the same for the plugins that execute_add copies into the plugin root
C20_RenameCopied ==
    RenameReturned /\ (\A i \in 1..Len(plan) : NeedsCopy(plan[i])) =>
        /\ result.status = "ok"
        /\ \A i \in 1..Len(plan) : plan[i].conflict = "Rename" => RenamedEntry(plan[i])

(***************************************************************************)
(* Add under skip (Spec).                                                  *)
(***************************************************************************)
\* the names registered in the snapshot the plan was made from
SnapshotNames == ExistingNames(config)

\* the Add in progress ran under skip and has a plan
SkipPlanned ==
    /\ args.op = "add"
    /\ args.strategy = "skip"
    /\ pc \notin {"idle", "done"} \/ (pc = "done" /\ plan # <<>>)

\* C21: under skip, an input whose name is registered is planned as Skip and
\* takes no part in the execution: it is not reported, nothing is copied for
\* it and the entries of its name stay as they were; when every action of
\* the plan is Skip, execute_add returns the empty list and the registry
\* file, its version included, and the rest of the disk are as before.
C21_Skip ==
    SkipPlanned =>
        /\ \A i \in 1..Len(plan) :
              plan[i].plugin_name \in SnapshotNames <=> plan[i].conflict = "Skip"
        /\ (pc = "done" /\ result.status = "ok"
            => /\ Len(result.names) = Len(SelectSeq(plan, LAMBDA a : a.conflict # "Skip"))
               /\ \A i \in 1..Len(plan) :
                     plan[i].conflict = "Skip"
                     => /\ \A k \in 1..Len(result.names) :
                              result.names[k] # plan[i].plugin_name
                        /\ SelectSeq(DiskEntries(files),
                                     LAMBDA e : e.name = plan[i].plugin_name)
                             = SelectSeq(DiskEntries(pre.files),
                                         LAMBDA e : e.name = plan[i].plugin_name))
        /\ (pc = "done" /\ (\A i \in 1..Len(plan) : plan[i].conflict = "Skip")
            => /\ result = Ok(<<>>, <<>>)
               /\ files = pre.files
               /\ dirs = pre.dirs
               /\ log = <<>>)

\* a batch of two registered plugins, one of them external, was skipped whole
C21_Witness ==
    /\ SkipPlanned
    /\ pc = "done"
    /\ Len(plan) = 2
    /\ \A i \in 1..Len(plan) : plan[i].conflict = "Skip"
    /\ \E i \in 1..Len(plan) : plan[i].is_external
    /\ ~args.dry_run
    /\ result = Ok(<<>>, <<>>)

\* a batch with one skipped and one added plugin was committed
C21_WitnessMixed ==
    /\ SkipPlanned
    /\ pc = "done"
    /\ result.status = "ok"
    /\ Len(plan) = 2
    /\ Len(result.names) = 1
    /\ "commit" \in {log[i] : i \in 1..Len(log)}

(***************************************************************************)
(* Warnings at the final validation (Spec).                                *)
(***************************************************************************)
\* the diagnostics of the registry as it is on disk
DiskDiagnostics == validate_marketplace(dirs, files[MarketplacePath])

\* the final validation is about to run on a registry that loads and whose
\* diagnostics are warnings only, one at least
OnlyWarnings ==
    /\ pc \in {"add_validate", "rm_validate", "up_validate"}
    /\ fault = "none"
    /\ LoadOk(files, dirs)
    /\ DiskDiagnostics # {}
    /\ \A d \in DiskDiagnostics : d.sev = "warning"

\* C22: when the final validation of Add, Remove or Update yields warnings
\* and no error, the step commits: the written registry stays on disk, the
\* backup is removed and no error is returned.
C22_WarningStep ==
    OnlyWarnings /\ pc' # pc =>
        /\ result'.status # "err"
        /\ log' = Append(log, "commit")
        /\ files'[MarketplacePath] = files[MarketplacePath]
        /\ mp_guard' = <<>>
        /\ ~Exists(files', mp_guard[1].backup_path)

C22_WarningsDontBlock == [][C22_WarningStep]_vars

\* a remove was committed while a directory under the plugin root had no entry
C22_Witness ==
    /\ pc = "done"
    /\ args.op = "remove"
    /\ result.status = "ok"
    /\ "commit" \in {log[i] : i \in 1..Len(log)}
    /\ LoadOk(files, dirs)
    /\ \E d \in DiskDiagnostics : d.sev = "warning"
    /\ pre.dirs = dirs

(***************************************************************************)
(* The errors of plan_add (Spec).                                          *)
(***************************************************************************)
\* input i cannot be resolved, or its plugin.json is missing, unparseable
\* or nameless, or its plugin fails validate_plugin
BadInput(i) == ~InputValid(i)

BadInputs == {i \in 1..Len(args.names) : BadInput(i)}

\* the error returned names input i
Reports(i) == \E k \in 1..Len(result.errors) : result.errors[k].input = args.names[i]

\* C23: when several inputs of one Add cannot be resolved or fail the
\* validation of their plugin, a missing, unparseable or nameless
\* plugin.json included, the call fails and its error names all of them.
C23_AllReported ==
    Returned("add") /\ Cardinality(BadInputs) >= 2 =>
        /\ result.status = "err"
        /\ \A i \in BadInputs : Reports(i)

\* the same for the inputs plan_add collects: those that cannot be resolved
\* and those whose plugin.json is readable and named but fails validation,
\* when no input of the batch makes plan_add return at once
C23_Collected ==
    (/\ Returned("add")
     /\ Cardinality(BadInputs) >= 2
     /\ \A i \in 1..Len(args.names) :
           /\ InputPath(i) = NoPath \/ InputNamed(i)
           /\ ~(args.strategy = "abort" /\ InputValid(i) /\ InputConflicts(i)))
    => /\ result.status = "err"
       /\ result.kind = "Other"
       /\ Len(result.errors) = Cardinality(BadInputs)
       /\ \A i \in BadInputs : Reports(i)

(***************************************************************************)
(* Add with no_copy (Spec).                                                *)
(***************************************************************************)
\* execute_add has returned from a run for real, with no_copy, on a valid
\* registry, for one valid external plugin whose name was not registered
NoCopyReturned ==
    /\ Returned("add")
    /\ args.no_copy
    /\ ~args.dry_run
    /\ edits = 0
    /\ ~has_errors(validate_marketplace(pre.dirs, pre.files[MarketplacePath]))
    /\ Len(plan) = 1
    /\ plan[1].is_external
    /\ plan[1].conflict = "None"

\* the directories under the plugin root
UnderPluginRoot(ds) == {d \in ds : IsPrefix(PluginRoot, d)}

\* C24: with no_copy, after execute_add has run for real on an external
\* plugin, the registry holds an entry of the plugin whose source is the
\* absolute path of the plugin, and no directory was created under the
\* plugin root.
C24_NoCopy ==
    NoCopyReturned =>
        /\ \E k \in 1..Len(DiskEntries(files)) :
              /\ DiskEntries(files)[k].name = plan[1].plugin_name
              /\ DiskEntries(files)[k].source = plan[1].plugin_path
        /\ Head(plan[1].plugin_path) = "/"
        /\ UnderPluginRoot(dirs) = UnderPluginRoot(pre.dirs)

(***************************************************************************)
(* The metadata refreshed by an update (SpecUpdate).                       *)
(***************************************************************************)
\* update_plugins returned Ok
UpdateOk == Returned("update") /\ result.status = "ok"

\* the entry of the registry on disk whose source is the directory dir
EntryOfDir(fs, dir) ==
    LET es == DiskEntries(fs) IN
    es[CHOOSE k \in 1..Len(es) : EntryDir(es[k]) = dir]

\* the directory of the plugin that was registered as n when the call began
DirOfName(n) == EntryDir(DiskEntries(pre.files)[FindEntry(DiskEntries(pre.files), n)])

\* the directories of the plugins the call was asked to update
TargetDirs == {DirOfName(args.names[i]) : i \in 1..Len(args.names)}

\* C25: after a successful update_plugins, the entry of every requested
\* plugin, that is the entry whose source is the directory of the plugin,
\* carries the keywords of the plugin.json of that directory as tags and
\* the name of that plugin.json; every other entry is as it was.
C25_OwnMetadata ==
    UpdateOk =>
        /\ \A d \in TargetDirs :
              /\ EntryOfDir(files, d).tags = files[PluginJsonPath(d)].keywords
              /\ EntryOfDir(files, d).name = files[PluginJsonPath(d)].name
        /\ \A k \in 1..Len(DiskEntries(pre.files)) :
              EntryDir(DiskEntries(pre.files)[k]) \notin TargetDirs
              => DiskEntries(files)[k] = DiskEntries(pre.files)[k]

\* with one requested name the entry of the plugin does carry its own
\* metadata and the other entry is as it was
C25_OneName ==
    (UpdateOk /\ Len(args.names) = 1) =>
        /\ \A d \in TargetDirs :
              /\ EntryOfDir(files, d).tags = files[PluginJsonPath(d)].keywords
              /\ EntryOfDir(files, d).name = files[PluginJsonPath(d)].name
        /\ \A k \in 1..Len(DiskEntries(pre.files)) :
              EntryDir(DiskEntries(pre.files)[k]) \notin TargetDirs
              => DiskEntries(files)[k] = DiskEntries(pre.files)[k]

(***************************************************************************)
(* The version bumps (SpecBump, SpecUpdate).                               *)
(***************************************************************************)
\* the increment rule of semver on the numbers themselves
Increment(bump, v) ==
    CASE bump = "major" -> Ver(v.major + 1, 0, 0)
      [] bump = "minor" -> Ver(v.major, v.minor + 1, 0)
      [] OTHER -> Ver(v.major, v.minor, v.patch + 1)

BumpReturned == pc = "done" /\ args.op = "bump" /\ args.version.ok

\* C26: a bump of a version that parses gives (M+1).0.0 for major,
\* M.(m+1).0 for minor and M.m.(p+1) for patch, without pre-release or
\* build metadata.
C26_IncrementRules ==
    BumpReturned =>
        /\ result.status = "ok"
        /\ plan = <<Increment(args.bump_type, args.version)>>

\* the rules hold for every version whose incremented component is below
\* the largest u64
C26_BelowMax ==
    (BumpReturned /\ ~Overflows(args.bump_type, args.version)) =>
        /\ result.status = "ok"
        /\ plan = <<Increment(args.bump_type, args.version)>>

\* the number of times the name of position i is requested in the batch
Requested(i) == Cardinality({j \in 1..Len(args.names) : args.names[j] = args.names[i]})

RECURSIVE BumpTimes(_, _, _)
BumpTimes(bump, v, k) == IF k = 0 THEN v ELSE BumpTimes(bump, Bump(bump, v), k - 1)

\* update_plugins rewrites the version of a targeted plugin.json by the
\* rule once for each time the plugin is named in the batch, and leaves
\* it as it was when no bump type is given
C26_UpdateBumps ==
    UpdateOk =>
        \A i \in 1..Len(args.names) :
            LET q == PluginJsonPath(DirOfName(args.names[i])) IN
            files[q].version =
                IF args.bump_type = "none" THEN pre.files[q].version
                ELSE BumpTimes(args.bump_type, pre.files[q].version, Requested(i))

(***************************************************************************)
(* The diagnostics of the validators (SpecValidate).                       *)
(***************************************************************************)
\* the names of the directories directly under the plugin root
DirsUnderRoot == {d[Len(d)] : d \in {e \in dirs : Len(e) = Len(PluginRoot) + 1
                                                 /\ SubSeq(e, 1, Len(PluginRoot)) = PluginRoot}}

\* the last component of the source of every entry of the registry
EntryBasenames ==
    {Last(config.marketplace.plugins[k].source) : k \in 1..Len(config.marketplace.plugins)}

\* C27: validate_marketplace reports a warning, and no error, for every
\* directory directly under the plugin root whose name is the source
\* basename of no entry, and an error whose message names the remove
\* command for every entry whose source basename is no directory directly
\* under the plugin root.
C27_Completeness ==
    Returned("validate_marketplace") =>
        /\ \A n \in DirsUnderRoot \ EntryBasenames :
              /\ \E d \in plan : d.sev = "warning" /\ d.msg = OrphanMsg /\ d.arg = <<n>>
              /\ ~\E d \in plan : d.sev = "error" /\ d.on = PluginRoot \o <<n>>
        /\ \A n \in EntryBasenames \ DirsUnderRoot :
              \E d \in plan : d.sev = "error" /\ d.msg = MissingMsg /\ d.arg = <<n>>

\* a validation that reports an orphaned directory and a missing one
C27_Witness ==
    /\ Returned("validate_marketplace")
    /\ DirsUnderRoot \ EntryBasenames # {}
    /\ EntryBasenames \ DirsUnderRoot # {}

\* the completeness diagnostics are reported for nothing else
C27_OnlyThose ==
    Returned("validate_marketplace") =>
        \A d \in plan :
            /\ d.msg = OrphanMsg => d.arg[1] \in DirsUnderRoot \ EntryBasenames
            /\ d.msg = MissingMsg => d.arg[1] \in EntryBasenames \ DirsUnderRoot

\* validate_plugin returned for a directory whose plugin.json parsed
ManifestValidated ==
    /\ Returned("validate_plugin")
    /\ IsDir(dirs, args.path \o <<".claude-plugin">>)
    /\ Exists(files, PluginJsonPath(args.path))
    /\ files[PluginJsonPath(args.path)].kind = "pj"

SemverError ==
    DiagFor("error", "Invalid semver version: {v}", <<>>, PluginJsonPath(args.path))

\* C28: validate_plugin does not stop at the first defective field: for a
\* manifest that is the empty object its diagnostics on plugin.json are
\* exactly three errors, missing name, missing version and missing
\* description, and they are the whole result when the directory has no
\* extends-plugin.json; the semver error is produced exactly when a
\* version string is present and malformed.
C28_NotFailFast ==
    ManifestValidated =>
        LET m == files[PluginJsonPath(args.path)]
            onManifest == {d \in plan : d.on = PluginJsonPath(args.path)}
        IN
        /\ m = EmptyObject =>
              /\ onManifest = {MissingField("name", args.path),
                               MissingField("version", args.path),
                               MissingField("description", args.path)}
              /\ Cardinality(onManifest) = 3
              /\ \A d \in onManifest : d.sev = "error"
              /\ ~Exists(files, ExtendsPath(args.path)) => plan = onManifest
        /\ SemverError \in plan <=> (m.hasVersion /\ ~m.version.ok)

\* validate_plugin returned for a manifest that is the empty object
C28_Witness == ManifestValidated /\ files[PluginJsonPath(args.path)] = EmptyObject

\* a malformed version is reported next to the other missing fields
C28_WitnessSemver ==
    /\ ManifestValidated
    /\ SemverError \in plan
    /\ MissingField("name", args.path) \in plan
    /\ MissingField("description", args.path) \in plan

(***************************************************************************)
(* What prune deletes (SpecPrune).                                         *)
(***************************************************************************)
PruneOk == Returned("prune") /\ result.status = "ok"

\* the directories of the entries of the registry
RegisteredDirs ==
    {Canonicalize(resolve_source(config.marketplace.plugins[k].source)) :
        k \in 1..Len(config.marketplace.plugins)}

\* the directories directly under the plugin root when prune began
TopDirs == {d \in pre.dirs : Len(d) = Len(PluginRoot) + 1
                             /\ SubSeq(d, 1, Len(PluginRoot)) = PluginRoot}

\* the directories directly under the plugin root that prune deleted
DeletedTop == TopDirs \ dirs

PruneFrame ==
    /\ files[MarketplacePath] = pre.files[MarketplacePath]
    /\ ~args.apply => (dirs = pre.dirs /\ files = pre.files)
    /\ \A d \in pre.dirs \ dirs : \E o \in DeletedTop : IsPrefix(o, d)
    /\ \A f \in (DOMAIN pre.files) \ (DOMAIN files) : \E o \in DeletedTop : IsPrefix(o, f)
    /\ \A f \in DOMAIN files : f \in DOMAIN pre.files /\ files[f] = pre.files[f]

\* C29: prune_plugins leaves the registry file as it was; without apply
\* it deletes nothing; with apply every directory it deletes lies directly
\* under the plugin root and neither is nor contains the directory of a
\* registered entry; a deletion that fails is a warning and the other
\* orphans are deleted.
C29_PruneSafe ==
    PruneOk =>
        /\ PruneFrame
        /\ \A o \in DeletedTop : ~\E r \in RegisteredDirs : IsPrefix(o, r)
        /\ \A i \in 1..Len(result.names) :
              LET o == PluginRoot \o <<result.names[i]>> IN
              args.apply =>
                 IF \E j \in 1..Len(result.warnings) : result.warnings[j] = result.names[i]
                 THEN o \in dirs ELSE o \notin dirs

\* what holds of the deleted directories: the name of each is the last
\* component of the source of no entry
C29_ByBasename ==
    PruneOk =>
        /\ PruneFrame
        /\ \A o \in DeletedTop :
              ~\E k \in 1..Len(config.marketplace.plugins) :
                  Last(config.marketplace.plugins[k].source) = Last(o)
        /\ \A i \in 1..Len(result.names) :
              LET o == PluginRoot \o <<result.names[i]>> IN
              args.apply =>
                 IF \E j \in 1..Len(result.warnings) : result.warnings[j] = result.names[i]
                 THEN o \in dirs ELSE o \notin dirs

\* a deletion failed, another orphan was deleted
C29_PartialFailure ==
    PruneOk /\ args.apply /\ result.warnings # <<>> /\ DeletedTop # {}

(***************************************************************************)
(* The copy phase of execute_add and the registry (Spec).                  *)
(***************************************************************************)
\* the action the copy phase is at
Copying == EffectiveActions(plan)[idx]

\* the action is copied to a directory that exists and is not a Replace
TargetExists ==
    /\ pc = "add_copy"
    /\ Copying.is_external
    /\ Head(Copying.source) # "/"
    /\ Copying.conflict # "Replace"
    /\ PluginRoot \o (IF Copying.conflict = "Rename" THEN <<Copying.new_name>>
                      ELSE Copying.source) \in dirs

\* the effective actions that are copied into the plugin root
ToCopy == {i \in 1..Len(EffectiveActions(plan)) :
             /\ EffectiveActions(plan)[i].is_external
             /\ Head(EffectiveActions(plan)[i].source) # "/"}

C30_Step ==
    /\ TargetExists =>
          /\ pc' = "done"
          /\ result'.status = "err"
          /\ dirs' = dirs
          /\ files' = files
          /\ mp_guard' = <<>>
          /\ \A i \in 1..Len(log') : log'[i] \notin {"guard", "write", "commit"}
    /\ (args.op = "add" /\ Len(log') > Len(log) /\ log'[Len(log')] = "guard") =>
          /\ Count(log, "copy") = Cardinality(ToCopy)
          /\ \A i \in 1..Len(log) : log[i] = "copy"
          /\ files[MarketplacePath] = pre.files[MarketplacePath]

\* C30: when execute_add comes to an external entry whose target directory
\* exists under the plugin root and the entry is not a Replace, it
\* returns an error and leaves every directory and every file, the
\* registry included, as they were, with no guard acquired; the guard on
\* the registry is acquired only after every external entry of the batch
\* has been copied, the registry being until then as it was on entry.
C30_CopyBeforeRegistry == [][C30_Step]_vars

\* an entry of a batch met an existing target after another was copied
C30_Witness ==
    /\ Returned("add")
    /\ result.status = "err"
    /\ result.at = "copy"
    /\ Count(log, "copy") > 0

(***************************************************************************)
(* The registry on disk and the snapshot (Spec).                           *)
(***************************************************************************)
\* a pipeline committed a new registry and returned Ok
Committed ==
    /\ pc = "done"
    /\ args.op \in {"add", "remove", "update"}
    /\ result.status = "ok"
    /\ Count(log, "commit") > 0

\* the names of the entries the invocation targets: those an Add replaces,
\* those a Remove or an Update is given
TargetedNames ==
    IF args.op = "add"
    THEN {plan[i].plugin_name : i \in {k \in 1..Len(plan) : plan[k].conflict = "Replace"}}
    ELSE {args.names[i] : i \in 1..Len(args.names)}

\* the entries of the registry on disk at entry that the snapshot lacks
StaleEntries ==
    {e \in SeqToSet(DiskEntries(pre.files)) : e \notin SeqToSet(config.marketplace.plugins)}

\* C31: the pipelines mutate the registry read from disk at execution
\* time: an entry that is on disk and not in the snapshot of the caller
\* is in the committed registry, unchanged, when the invocation does not
\* target it.
C31_DiskNotSnapshot ==
    Committed =>
        \A e \in StaleEntries :
            e.name \notin TargetedNames => e \in SeqToSet(DiskEntries(files))

\* a commit on a registry that held an entry unknown to the snapshot
C31_Witness ==
    /\ Committed
    /\ \E e \in StaleEntries : e.name \notin TargetedNames

(***************************************************************************)
(* Validity of the registry at rest (Spec, SpecLife).                      *)
(***************************************************************************)
\* the registry on disk parses and validates without an error
ValidAtRest(fs, ds) ==
    /\ LoadOk(fs, ds)
    /\ ~has_errors(validate_marketplace(ds, fs[MarketplacePath]))

\* an invocation of a pipeline returned, having begun on a valid registry
\* with a snapshot loaded from it
ReturnedFromValid ==
    /\ pc = "done"
    /\ args.op \in {"add", "remove", "update"}
    /\ ValidAtRest(pre.files, pre.dirs)
    /\ config = load_marketplace_config(pre.files, pre.dirs)

\* C32: an invocation of Add, Remove or Update that begins on a registry
\* that validates without an error, successful or failed, returns with a
\* registry on disk that validates without an error.
C32_ValidAtRest == ReturnedFromValid => ValidAtRest(files, dirs)

\* no two entries of the registry at entry have the same directory
DistinctDirs ==
    \A i, k \in 1..Len(DiskEntries(pre.files)) :
        EntryDir(DiskEntries(pre.files)[i]) = EntryDir(DiskEntries(pre.files)[k]) => i = k

\* validity is kept by the invocations that begin on a registry whose
\* entries have pairwise different directories
C32_DistinctDirs == (ReturnedFromValid /\ DistinctDirs) => ValidAtRest(files, dirs)

(***************************************************************************)
(* The version of the registry (Spec, SpecIO, SpecUpdate).                 *)
(***************************************************************************)
\* a pipeline returned, having begun on a registry with a version
PipelineReturned ==
    /\ pc = "done"
    /\ args.op \in {"add", "remove", "update"}
    /\ ReadFile(pre.files, MarketplacePath).kind = "mp"
    /\ pre.files[MarketplacePath].version.ok

\* the version of the registry on disk is the one at entry plus one patch
PatchByOne ==
    /\ ReadFile(files, MarketplacePath).kind = "mp"
    /\ files[MarketplacePath].version.ok
    /\ files[MarketplacePath].version.major = pre.files[MarketplacePath].version.major
    /\ files[MarketplacePath].version.minor = pre.files[MarketplacePath].version.minor
    /\ files[MarketplacePath].version.patch = pre.files[MarketplacePath].version.patch + 1

VersionKept ==
    /\ ReadFile(files, MarketplacePath).kind = "mp"
    /\ files[MarketplacePath].version = pre.files[MarketplacePath].version

\* C33: an invocation of Add, Remove or Update that commits leaves the
\* registry with the patch version it had plus 1 and the same major and
\* minor; one that fails, is a dry run or has nothing to do leaves the
\* version as it was.
C33_PatchByOne ==
    PipelineReturned => IF Count(log, "commit") > 0 THEN PatchByOne ELSE VersionKept

\* the same for a registry whose patch version is below the largest u64
C33_BelowMax ==
    (PipelineReturned /\ pre.files[MarketplacePath].version.patch < MaxComponent)
    => IF Count(log, "commit") > 0 THEN PatchByOne ELSE VersionKept

(***************************************************************************)
(* The entries a pipeline does not target (Spec).                          *)
(***************************************************************************)
RECURSIVE KeepLast(_)
\* a sequence of names without the occurrences that a later one repeats
KeepLast(q) ==
    IF q = <<>> THEN <<>>
    ELSE IF \E k \in 2..Len(q) : q[k] = Head(q) THEN KeepLast(Tail(q))
    ELSE <<Head(q)>> \o KeepLast(Tail(q))

\* the entries at entry that the invocation does not target, in order
Untargeted == SelectSeq(DiskEntries(pre.files), LAMBDA e : e.name \notin TargetedNames)

NamesOf(es) == [k \in 1..Len(es) |-> es[k].name]

\* C34: a committed Add, Remove or Update leaves the entries it does not
\* target as they were, name, source and tags, and in the same order;
\* Remove leaves nothing else, Update keeps every entry at its position,
\* and Add appends the entries it adds after them in the order of the
\* inputs.
C34_Frame ==
    Committed =>
        LET old == DiskEntries(pre.files)
            new == DiskEntries(files)
        IN
        CASE args.op = "remove" -> new = Untargeted
          [] args.op = "update" ->
                /\ Len(new) = Len(old)
                /\ \A k \in 1..Len(old) : old[k].name \notin TargetedNames => new[k] = old[k]
          [] OTHER ->
                /\ Len(new) >= Len(Untargeted)
                /\ SubSeq(new, 1, Len(Untargeted)) = Untargeted
                /\ NamesOf(SubSeq(new, Len(Untargeted) + 1, Len(new))) = KeepLast(result.names)

\* a commit that left two or more untargeted entries behind
C34_Witness == Committed /\ Len(Untargeted) >= 2

\* an Add that appended two entries after an untargeted one
C34_WitnessAdd ==
    /\ Committed
    /\ args.op = "add"
    /\ Len(Untargeted) >= 1
    /\ Len(DiskEntries(files)) >= Len(Untargeted) + 2

(***************************************************************************)
(* The names of a plan (Spec).                                             *)
(***************************************************************************)
\* plan_add returned a plan
Planned == pc = "add_planned"

\* the names registered in the snapshot plan_add was given
Registered == {config.marketplace.plugins[k].name : k \in 1..Len(config.marketplace.plugins)}

\* the name of an action: the generated one under Rename
PlannedName(a) == IF a.conflict = "Rename" THEN a.new_name ELSE a.plugin_name

NotSkipped == {i \in 1..Len(plan) : plan[i].conflict # "Skip"}

\* C35: the final names of the actions of a plan that are not Skip are
\* pairwise distinct, and none but that of a Replace is a registered name.
C35_UniqueNames ==
    Planned =>
        /\ \A i, k \in NotSkipped : PlannedName(plan[i]) = PlannedName(plan[k]) => i = k
        /\ \A i \in NotSkipped :
              plan[i].conflict # "Replace" => PlannedName(plan[i]) \notin Registered

\* what holds: no final name but that of a Replace is a registered name
C35_NotRegistered ==
    Planned =>
        \A i \in NotSkipped :
            plan[i].conflict # "Replace" => PlannedName(plan[i]) \notin Registered

\* two inputs with the name of a registered plugin, planned under rename
C35_TwoRenames ==
    /\ Planned
    /\ \E i, k \in NotSkipped :
          /\ i # k
          /\ plan[i].conflict = "Rename" /\ plan[k].conflict = "Rename"
          /\ plan[i].plugin_path # plan[k].plugin_path
          /\ plan[i].new_name = plan[k].new_name

(***************************************************************************)
(* Update as one unit (SpecUpdateIO).                                      *)
(***************************************************************************)
UpdateFailed == Returned("update") /\ result.status = "err"

\* the files update_plugins guards: the registry, and with a bump type the
\* plugin.json of every requested plugin
GuardedFiles ==
    {MarketplacePath}
    \cup (IF args.bump_type = "none" THEN {}
          ELSE {PluginJsonPath(DirOfName(args.names[i])) : i \in 1..Len(args.names)})

\* C36: when update_plugins returns an error, a failure to remove a
\* backup during the commit included, the registry and every guarded
\* plugin.json have the content they had before the call.
C36_AllOrNothing ==
    UpdateFailed => \A q \in GuardedFiles : ReadFile(files, q) = ReadFile(pre.files, q)

\* the same for the errors returned before the commit of the guards
C36_BeforeCommit ==
    (UpdateFailed /\ result.at # "commit")
    => \A q \in GuardedFiles : ReadFile(files, q) = ReadFile(pre.files, q)

\* an update that ended with the registry rewritten and a plugin.json restored
C36_Mixed ==
    /\ UpdateFailed
    /\ ReadFile(files, MarketplacePath) # ReadFile(pre.files, MarketplacePath)
    /\ \E q \in GuardedFiles \ {MarketplacePath} :
          /\ ReadFile(files, q) = ReadFile(pre.files, q)
          /\ Count(log, "write") > 1

(***************************************************************************)
(* The backups a pipeline leaves (SpecIO).                                 *)
(***************************************************************************)
\* the backup files on a disk: the names AtomicGuard::new gives them
Backups(fs) ==
    {q \in DOMAIN fs : \E p \in DOMAIN fs \cup DOMAIN pre.files, t \in 0..MaxClock :
                          q = BackupPath(p, t)}

\* C37: when no operation of a guard fails, an invocation of Add, Remove
\* or Update that has returned, with Ok or with an error, holds no guard
\* and has left on disk no backup file that was not there when it began.
C37_NoBackupLeft ==
    (pc = "done" /\ args.op \in {"add", "remove", "update"} /\ fault # "guard") =>
        /\ mp_guard = <<>>
        /\ plugin_guards = <<>>
        /\ Backups(files) \subseteq DOMAIN pre.files

\* an update with two guards failed after its writes and cleaned up
C37_Witness ==
    /\ Returned("update")
    /\ result.status = "err"
    /\ Count(log, "guard") >= 2
    /\ Count(log, "write") >= 1
    /\ Backups(files) = {}

\* an update with two guards committed and cleaned up
C37_WitnessCommit ==
    /\ Returned("update")
    /\ result.status = "ok"
    /\ Count(log, "guard") >= 2
    /\ Backups(files) = {}

(***************************************************************************)
(* What Remove deletes (SpecRemove).                                       *)
(***************************************************************************)
\* the directories the invocation has deleted
DeletedDirs == pre.dirs \ dirs

RemovedWithoutOverride ==
    /\ pc = "done"
    /\ args.op = "remove"
    /\ ~args.allow_external_delete

\* C38: without the override every directory remove_plugins has deleted
\* is a proper descendant of the canonical plugin root; the plugin root
\* itself and its ancestors are never deleted.
C38_ProperDescendant ==
    RemovedWithoutOverride =>
        \A d \in DeletedDirs :
            starts_with(d, Canonicalize(PluginRoot)) /\ d # Canonicalize(PluginRoot)

\* C38: without the override nothing outside the canonical plugin root is
\* deleted, whatever the source string: a path through .., an absolute
\* path or a symbolic link that resolves outside is refused.
C38_Contained ==
    RemovedWithoutOverride =>
        \A d \in DeletedDirs : starts_with(d, Canonicalize(PluginRoot))

\* a source that resolves outside the plugin root was refused
C38_Refused ==
    /\ RemovedWithoutOverride
    /\ result.status = "err"
    /\ result.kind = "Other"
    /\ \E i \in 1..Len(config.marketplace.plugins) :
          config.marketplace.plugins[i].source = <<"ln">>
    /\ DeletedDirs = {}

\* a directory under the plugin root was deleted
C38_Deleted ==
    /\ RemovedWithoutOverride
    /\ result.status = "ok"
    /\ DeletedDirs # {}
    /\ PluginRoot \in dirs

(***************************************************************************)
(* Concurrent invocations (SpecRace).                                      *)
(***************************************************************************)
BothReturned == \A p \in Procs : pc[p] = "done"

\* the process returned Ok with names it removed, and one of them is in
\* the registry on disk
Lost(p) ==
    /\ result[p].status = "ok"
    /\ \E i \in 1..Len(result[p].names) :
          HasName(ReadFile(files, MarketplacePath).plugins, result[p].names[i])

\* the position of the last write of the process in the log, 0 if none
LastWrite(p) ==
    LET at == {i \in 1..Len(log) : log[i] = <<p, "write">>} IN
    IF at = {} THEN 0 ELSE CHOOSE i \in at : \A j \in at : i >= j

OverwrittenBy(q, p) ==
    \E i \in 1..Len(log) :
        /\ i > LastWrite(p)
        /\ log[i] \in {<<q, "write">>, <<q, "restore">>}

\* C39: with two invocations running concurrently on one registry and no
\* lock, a removal that one of them committed and reported is absent from
\* the final registry only when the other invocation wrote the registry, or
\* restored it from its backup, after the write of the first.
C39_LostOnlyByRace ==
    BothReturned => \A p \in Procs : Lost(p) => OverwrittenBy(Other(p), p)

\* both invocations returned Ok and the removal of one is not in the
\* final registry: it was overwritten by the write of the other
C39_LostByWrite ==
    /\ BothReturned
    /\ \A p \in Procs : result[p].status = "ok"
    /\ \E p \in Procs : Lost(p)

\* the removal one invocation committed was undone by the restore of the
\* other, which failed
C39_LostByRestore ==
    /\ BothReturned
    /\ \E p \in Procs :
          /\ Lost(p)
          /\ result[Other(p)].status = "err"
          /\ log[Len(log)] = <<Other(p), "restore">>

(***************************************************************************)
(* Several guards over one file (SpecGuardShared).                         *)
(***************************************************************************)
\* C40: with several guards alive over one file, acquired in the same
\* second or not, a guard over an existing file that is dropped
\* uncommitted leaves the file with the content it had when that guard
\* was acquired.
C40_DropRestores ==
    (last.op = "drop" /\ last.existed) =>
        ReadFile(files, last.guard.original_path) = last.acquired

\* the step drops the held guard i uncommitted
DropsGuard(i) ==
    /\ i \in 1..Len(held)
    /\ held' = Without(held, i)
    /\ last'.op = "drop"
    /\ last'.guard = held[i].guard

C40_UnsharedStep ==
    \A i \in 1..Len(held) :
        (DropsGuard(i) /\ ~held[i].shared /\ held[i].acquired # Absent) =>
            /\ ReadFile(files', held[i].guard.original_path) = held[i].acquired
            /\ ~Exists(files', held[i].guard.backup_path)

\* C40: a guard whose backup name no other guard was given during its life
\* restores the content it was acquired over when it is dropped, also
\* while other guards over the same file are alive.
C40_Unshared == [][C40_UnsharedStep]_vars

\* a guard was dropped while another guard over the same file, acquired in
\* a different second, was alive, and the file was changed in between
C40_TwoAlive ==
    /\ last.op = "drop"
    /\ last.existed
    /\ last.before[last.guard.original_path] # last.acquired
    /\ \E i \in 1..Len(held) :
          /\ held[i].guard.original_path = last.guard.original_path
          /\ held[i].guard.backup_path # NoPath
          /\ held[i].guard.backup_path # last.guard.backup_path

====
